---- MODULE Spec2Model ----
(***************************************************************************)
(* Metadata enrichment and caching layer of the media-catalog backend:     *)
(* credential store, token cache, metadata client (defensive parsing of    *)
(* untrusted JSON), lyrics resolver with its 24-hour result cache.         *)
(*                                                                         *)
(* Python values are modelled as tagged records (JNull, JStr, JNum, JList, *)
(* JDict); a Python exception in flight is the value Exc(name).  The       *)
(* try/except blocks of the source are the places where an Exc value is    *)
(* turned into a result.                                                   *)
(***************************************************************************)
EXTENDS Integers, Sequences, FiniteSets, TLC

-----------------------------------------------------------------------------
(* Bounds of the model *)

\* number of times the clock may advance in one behaviour
MaxTicks == 2
\* number of access tokens the provider issues in one behaviour
MaxTokens == 2

-----------------------------------------------------------------------------
(* Program constants *)

LYRICS_TTL == 60 * 60 * 24
TOKEN_MARGIN == 60
DEFAULT_EXPIRES_IN == 3600

-----------------------------------------------------------------------------
(* Python / JSON values *)

JNull == [t |-> "null"]
JBool(b) == [t |-> "bool", b |-> b]
JNum(n) == [t |-> "num", n |-> n]
JStr(s) == [t |-> "str", s |-> s]
JList(q) == [t |-> "list", l |-> q]
JDict(f) == [t |-> "dict", d |-> f]
\* the access token string number k issued by the provider (a non-empty str)
JTok(k) == [t |-> "str", tok |-> k]
\* a str given by its characters (song lyrics)
JText(q) == [t |-> "str", chars |-> q]
\* a response body that is not JSON: response.json() raises ValueError
NotJson == [t |-> "notjson"]
\* a key that is not present in a mapping under construction
Absent == [t |-> "absent"]
\* an exception in flight
Exc(e) == [t |-> "exc", e |-> e]
IsExc(v) == v.t = "exc"

PyNone == JNull
EmptyDict == JDict(<<>>)
EmptyList == JList(<<>>)

\* the mapping holding exactly the keys of f whose value is not Absent
MkDict(f) == JDict([k \in {x \in DOMAIN f : f[x] # Absent} |-> f[k]])

IsDict(v) == v.t = "dict"

\* bool(v)
Truthy(v) ==
    CASE v.t = "null" -> FALSE
      [] v.t = "bool" -> v.b
      [] v.t = "num" -> v.n # 0
      [] v.t = "str" -> v # JStr("") /\ v # JText(<<>>)
      [] v.t = "list" -> Len(v.l) > 0
      [] v.t = "dict" -> DOMAIN v.d # {}
      [] OTHER -> TRUE

\* v.get(k, default): only a mapping has .get
DictGet(v, k, default) ==
    IF IsExc(v) THEN v
    ELSE IF ~IsDict(v) THEN Exc("AttributeError")
    ELSE IF k \in DOMAIN v.d THEN v.d[k] ELSE default

\* len(v) > 0 for a truthy v: numbers and booleans have no len()
LenPositive(v) ==
    IF v.t \in {"num", "bool"} THEN Exc("TypeError") ELSE JBool(TRUE)

\* the last element taken where the first is meant
LastItem(v) ==
    CASE v.t = "list" -> v.l[Len(v.l)]
      [] v.t = "str" -> JStr("c")
      [] v.t = "dict" -> Exc("KeyError")
      [] OTHER -> Exc("TypeError")

\* v[0] for a truthy v with len(v) > 0
FirstItem(v) ==
    CASE v.t = "list" -> v.l[1]
      [] v.t = "str" -> JStr("c")
      [] v.t = "dict" -> Exc("KeyError")
      [] OTHER -> Exc("TypeError")

\* [a.get('name', '') for a in v if isinstance(a, dict)]
RECURSIVE NamesOfDicts(_)
NamesOfDicts(q) ==
    IF q = <<>> THEN <<>>
    ELSE IF IsDict(Head(q))
         THEN <<DictGet(Head(q), "name", JStr(""))>> \o NamesOfDicts(Tail(q))
         ELSE NamesOfDicts(Tail(q))

ArtistNames(v) ==
    CASE IsExc(v) -> v
      [] v.t = "list" -> JList(NamesOfDicts(v.l))
      [] v.t \in {"str", "dict"} -> EmptyList
      [] OTHER -> Exc("TypeError")

\* d.get(k, {}).get(sub) if isinstance(d.get(k), dict) else None
SubField(d, k, sub) ==
    IF IsDict(DictGet(d, k, PyNone))
    THEN DictGet(DictGet(d, k, EmptyDict), sub, PyNone)
    ELSE PyNone

-----------------------------------------------------------------------------
(* Metadata client: extraction of the first search result *)

TrackFields == {"spotify_id", "name", "artists", "album", "preview_url",
                "external_urls", "duration_ms", "popularity"}
AlbumFields == {"spotify_id", "name", "artists", "release_date", "total_tracks",
                "external_url", "images", "album_type"}
ArtistFields == {"spotify_id", "name", "genres", "popularity", "followers",
                 "external_url", "images"}

\* the dict literal of a search function; evaluating a field may raise
DictOrExc(f) ==
    IF \E k \in DOMAIN f : IsExc(f[k])
    THEN CHOOSE e \in {f[k] : k \in DOMAIN f} : IsExc(e)
    ELSE JDict(f)

\* the track literal written with track.get('artists') and no default: the
\* comprehension then iterates over None when the key is missing
TrackInfoNoDefaults(track) ==
    DictOrExc([k \in TrackFields |->
        CASE k = "spotify_id" -> DictGet(track, "id", JStr(""))
          [] k = "name" -> DictGet(track, "name", JStr(""))
          [] k = "artists" -> ArtistNames(DictGet(track, "artists", PyNone))
          [] k = "album" ->
                IF IsDict(DictGet(track, "album", PyNone))
                THEN DictGet(DictGet(track, "album", EmptyDict), "name", JStr(""))
                ELSE JStr("")
          [] k = "preview_url" -> DictGet(track, "preview_url", PyNone)
          [] k = "external_urls" -> DictGet(track, "external_urls", EmptyDict)
          [] k = "duration_ms" -> DictGet(track, "duration_ms", PyNone)
          [] k = "popularity" -> DictGet(track, "popularity", PyNone)])

TrackInfo(track) ==
    DictOrExc([k \in TrackFields |->
        CASE k = "spotify_id" -> DictGet(track, "id", JStr(""))
          [] k = "name" -> DictGet(track, "name", JStr(""))
          [] k = "artists" -> ArtistNames(DictGet(track, "artists", EmptyList))
          [] k = "album" ->
                IF IsDict(DictGet(track, "album", PyNone))
                THEN DictGet(DictGet(track, "album", EmptyDict), "name", JStr(""))
                ELSE JStr("")
          [] k = "preview_url" -> DictGet(track, "preview_url", PyNone)
          [] k = "external_urls" -> DictGet(track, "external_urls", EmptyDict)
          [] k = "duration_ms" -> DictGet(track, "duration_ms", PyNone)
          [] k = "popularity" -> DictGet(track, "popularity", PyNone)])

AlbumInfo(album) ==
    DictOrExc([k \in AlbumFields |->
        CASE k = "spotify_id" -> DictGet(album, "id", JStr(""))
          [] k = "name" -> DictGet(album, "name", JStr(""))
          [] k = "artists" -> ArtistNames(DictGet(album, "artists", EmptyList))
          [] k = "release_date" -> DictGet(album, "release_date", PyNone)
          [] k = "total_tracks" -> DictGet(album, "total_tracks", PyNone)
          [] k = "external_url" -> SubField(album, "external_urls", "spotify")
          [] k = "images" -> DictGet(album, "images", EmptyList)
          [] k = "album_type" -> DictGet(album, "album_type", PyNone)])

ArtistInfo(artist) ==
    DictOrExc([k \in ArtistFields |->
        CASE k = "spotify_id" -> DictGet(artist, "id", JStr(""))
          [] k = "name" -> DictGet(artist, "name", JStr(""))
          [] k = "genres" -> DictGet(artist, "genres", EmptyList)
          [] k = "popularity" -> DictGet(artist, "popularity", PyNone)
          [] k = "followers" -> SubField(artist, "followers", "total")
          [] k = "external_url" -> SubField(artist, "external_urls", "spotify")
          [] k = "images" -> DictGet(artist, "images", EmptyList)])

Extract(kind, item) ==
    CASE kind = "track" -> TrackInfo(item)
      [] kind = "album" -> AlbumInfo(item)
      [] kind = "artist" -> ArtistInfo(item)

\* the inner try/except around the dict literal: any exception gives None
SafeExtract(kind, item) ==
    LET info == Extract(kind, item)
    IN  IF IsExc(info) THEN PyNone ELSE info

\* the body of `if response.status_code == 200:` after response.json() gave
\* data; kind is "track", "album" or "artist"
FirstResult(kind, data) ==
    LET items == DictGet(DictGet(data, kind \o "s", EmptyDict), "items", EmptyList)
    IN  IF IsExc(items) THEN items
        ELSE IF ~Truthy(items) THEN PyNone
        ELSE IF IsExc(LenPositive(items)) THEN LenPositive(items)
        ELSE IF IsExc(FirstItem(items)) THEN FirstItem(items)
        ELSE IF ~IsDict(FirstItem(items)) THEN PyNone
        ELSE SafeExtract(kind, FirstItem(items))

\* what the code between requests.get and the outer except clauses yields
\* for a response: a value, or an exception in flight
SearchBody(kind, response) ==
    IF response.st # "http" THEN Exc(response.st)
    ELSE IF response.code # 200 THEN PyNone
    ELSE IF response.body = NotJson THEN PyNone
    ELSE FirstResult(kind, response.body)

\* the search without its outer except clauses: an exception reaches the caller
SearchResultNoExcept(kind, response) == SearchBody(kind, response)

\* the search with its outer except clauses (Timeout, RequestException,
\* Exception): every exception ends in `return None`
SearchResult(kind, response) ==
    LET r == SearchBody(kind, response)
    IN  IF IsExc(r) THEN PyNone ELSE r

-----------------------------------------------------------------------------
(* State *)

VARIABLES
    now,          \* wall clock, in seconds
    ticks,        \* how many times the clock has advanced
    credFile,     \* the configuration resource apis/spotify.txt
    geniusKey,    \* settings.GENIUS_API_KEY is configured
    songs,        \* catalog store: song id -> record
    tokenCache,   \* cache entry 'spotify_access_token'
    lyricsCache,  \* cache entries lyrics_<song_id>
    issued,       \* number of access tokens the provider has issued
    req,          \* the requests in progress, one per worker
    lastCall,     \* history: per song, the latest completed get_lyrics call
    grant,        \* history: the latest token the exchange stored in the cache
    fs,           \* the files api/spotify.txt and apis/spotify.txt under BASE_DIR
    service,      \* spotify_credentials of the LyricsService constructed last
    streaming,    \* Song.total_streams, the Stream records, the track_stream calls
    top,          \* a top_songs request: the analytics, the limit, the response
    managed,      \* a manage_song request and the song record it addresses
    batch,        \* a run of a batch command and its counters
    resp,         \* a search response handed to the three search operations
    out           \* what each search operation returned for resp

vars == <<now, ticks, credFile, geniusKey, songs, tokenCache, lyricsCache,
          issued, req, lastCall, grant, fs, service, streaming, top, managed, batch, resp, out>>

clock == <<now, ticks>>
config == <<credFile, geniusKey>>
side == <<fs, service, streaming, top, managed, batch>>
core == <<now, ticks, credFile, geniusKey, songs, tokenCache, lyricsCache,
          issued, req, lastCall, grant, resp, out>>
parse == <<resp, out, side>>

-----------------------------------------------------------------------------
(* Search responses the metadata service may give *)

HttpResp(code, body) == [st |-> "http", code |-> code, body |-> body]
TransportError(kind) == [st |-> kind, code |-> 0, body |-> NotJson]

Kinds == {"track", "album", "artist"}

IdVals == {Absent, JNull, JStr("id1")}
NameVals == {Absent, JStr("n1")}
ArtistsVals ==
    {Absent, JNull, JNum(7), JStr("x"), EmptyList,
     JList(<<JDict([k \in {"name"} |-> JStr("A")]), JStr("junk"), EmptyDict>>),
     JDict([k \in {"name"} |-> JStr("A")])}
AlbumVals == {Absent, JNull, JDict([k \in {"name"} |-> JStr("Alb")])}
ExternalUrlsVals == {Absent, JNum(3), JDict([k \in {"spotify"} |-> JStr("url")])}
FollowersVals == {Absent, JNum(10), JDict([k \in {"total"} |-> JNum(10)])}

ItemKeys == {"id", "name", "artists", "album", "external_urls", "followers"}

\* first items that are mappings
Items ==
    {MkDict([k \in ItemKeys |->
        CASE k = "id" -> i
          [] k = "name" -> n
          [] k = "artists" -> a
          [] k = "album" -> al
          [] k = "external_urls" -> e
          [] k = "followers" -> f]) :
     i \in IdVals, n \in NameVals, a \in ArtistsVals, al \in AlbumVals,
     e \in ExternalUrlsVals, f \in FollowersVals}

\* a well-formed item
GoodItem ==
    JDict([k \in {"id", "name", "artists"} |->
        CASE k = "id" -> JStr("id1")
          [] k = "name" -> JStr("n1")
          [] k = "artists" -> JList(<<JDict([x \in {"name"} |-> JStr("A")])>>)])

\* items a result list of several elements is made of
OtherItem ==
    JDict([k \in {"id", "name"} |-> IF k = "id" THEN JStr("id2") ELSE JStr("n2")])
ListItems == {GoodItem, OtherItem, JStr("x"), JNull}

\* values of the "items" key
ItemLists ==
    {JNull, JNum(3), JBool(TRUE), JStr("abc"), EmptyList,
     JDict([k \in {"k"} |-> JNum(1)]), JList(<<JStr("x")>>), JList(<<JNull>>)}
      \cup {JList(<<it>>) : it \in Items}
      \cup {JList(<<a, b>>) : a, b \in ListItems}
      \cup {JList(<<OtherItem, JNull, GoodItem>>)}

\* values of the "tracks" / "albums" / "artists" key
Containers ==
    {JNull, JStr("s"), EmptyList, EmptyDict}
      \cup {JDict([k \in {"items"} |-> l]) : l \in ItemLists}

\* a body answers the three kinds of search alike
BodyOf(c) == JDict([k \in {"tracks", "albums", "artists"} |-> c])

GoodBody == BodyOf(JDict([k \in {"items"} |-> JList(<<GoodItem>>)]))

Bodies ==
    {NotJson, JNull, JNum(1), JStr("body"), EmptyList, EmptyDict}
      \cup {BodyOf(c) : c \in Containers}

ParseResponses ==
    {TransportError("Timeout"), TransportError("ConnectionError")}
      \cup {HttpResp(200, b) : b \in Bodies}
      \cup {HttpResp(c, b) : c \in {401, 404, 500}, b \in {NotJson, EmptyDict, GoodBody}}

Pending == [t |-> "pending"]

-----------------------------------------------------------------------------
(* Initial values shared by the specifications *)

\* a cache entry; set_at is history (when the entry was written)
NoEntry == [present |-> FALSE, value |-> PyNone, expires_at |-> 0, set_at |-> 0]
\* an entry of the history of calls
NoCall == [present |-> FALSE, value |-> PyNone, at |-> 0]
\* an entry of the history of grants: token, time of the exchange, expires_in,
\* and whether a search or audio-features request made with it has failed
NoGrant ==
    [present |-> FALSE, token |-> PyNone, at |-> 0, expires_in |-> Absent,
     refused |-> FALSE]

\* the paths of the credentials file: the one the loader reads and the one
\* the setup command writes
LoaderPath == "apis/spotify.txt"
SetupPath == "api/spotify.txt"

\* no file at the path; a file with its lines
NoFile == [exists |-> FALSE, lines |-> <<>>]
FileOf(lines) == [exists |-> TRUE, lines |-> lines]

\* no LyricsService has been constructed
NoService == [t |-> "unset"]

\* nothing outside the operations under study: no credentials file, no
\* service constructed
SideIdle ==
    /\ fs = [path \in {LoaderPath, SetupPath} |-> NoFile]
    /\ service = NoService
    /\ streaming = <<>>
    /\ top = <<>> /\ managed = <<>> /\ batch = <<>>

ParseIdle ==
    /\ SideIdle
    /\ now = 0 /\ ticks = 0
    /\ credFile = "ok" /\ geniusKey = FALSE
    /\ songs = <<>>
    /\ tokenCache = NoEntry /\ lyricsCache = <<>>
    /\ issued = 0 /\ req = <<>> /\ lastCall = <<>> /\ grant = <<>>

-----------------------------------------------------------------------------
(* The search operations applied to one response *)

InitParse ==
    /\ ParseIdle
    /\ resp \in ParseResponses
    /\ out = [k \in Kinds |-> Pending]

\* search_track / search_album / search_artist with an access token in hand
ApplySearch(kind) ==
    /\ out[kind] = Pending
    /\ out' = [out EXCEPT ![kind] = SearchResult(kind, resp)]
    /\ UNCHANGED <<clock, config, songs, tokenCache, lyricsCache, issued, req,
                   lastCall, grant, resp, side>>

NextParse == \E kind \in Kinds : ApplySearch(kind)

SpecParse == InitParse /\ [][NextParse]_vars

-----------------------------------------------------------------------------
(* Cache store: get / set / delete with per-entry expiry *)

\* a cache.get that never lets an entry expire
CacheGetNoExpiry(entry, t) ==
    IF entry.present THEN entry.value ELSE PyNone

\* cache.get(key) at time t: an expired entry is a miss
CacheGet(entry, t) ==
    IF entry.present /\ t < entry.expires_at THEN entry.value ELSE PyNone

\* cache.set(key, value, ttl) at time t
CacheSet(value, ttl, t) ==
    [present |-> TRUE, value |-> value, expires_at |-> t + ttl, set_at |-> t]

-----------------------------------------------------------------------------
(* Credential store *)

CredFiles == {"absent", "unreadable", "empty", "only_id", "only_secret", "ok"}

\* the keys the parsed resource holds
CredKeys(file) ==
    CASE file = "only_id" -> {"client_id"}
      [] file = "only_secret" -> {"client_secret"}
      [] file = "ok" -> {"client_id", "client_secret"}
      [] OTHER -> {}

\* _load_spotify_credentials(): TRUE when credentials are returned, FALSE
\* when it returns None (file missing, exception while reading, key missing)
LoadCredentials(file) ==
    IF file = "absent" THEN FALSE
    ELSE IF file = "unreadable" THEN FALSE
    ELSE {"client_id", "client_secret"} \subseteq CredKeys(file)

-----------------------------------------------------------------------------
(* Catalog store *)

SongIds == {1, 2}

Blank == JText(<<" ", " ">>)
LaLaLa == JText(<<"l", "a">>)
LoLoLo == JText(<<"l", "o">>)
\* the lyrics a catalog update may store
LyricsVals == {Blank, LaLaLa, LoLoLo}

NoSong == [exists |-> FALSE, lyrics |-> PyNone]

RECURSIVE LStrip(_)
LStrip(q) == IF q # <<>> /\ Head(q) = " " THEN LStrip(Tail(q)) ELSE q
RECURSIVE RStrip(_)
RStrip(q) ==
    IF q # <<>> /\ q[Len(q)] = " " THEN RStrip(SubSeq(q, 1, Len(q) - 1)) ELSE q
\* str.strip()
Strip(v) == JText(RStrip(LStrip(v.chars)))

\* the test of the database step with the strip() test negated
HasLyricsInverted(lyrics) == Truthy(lyrics) /\ ~Truthy(Strip(lyrics))

\* song.lyrics and song.lyrics.strip()
HasLyrics(lyrics) == Truthy(lyrics) /\ Truthy(Strip(lyrics))

-----------------------------------------------------------------------------
(* Lyrics results *)

\* the database result with the has_lyrics flag left false
DatabaseResultUnflagged(lyrics) ==
    JDict([k \in {"success", "lyrics", "source", "has_lyrics"} |->
        CASE k = "success" -> JBool(TRUE)
          [] k = "lyrics" -> lyrics
          [] k = "source" -> JStr("database")
          [] k = "has_lyrics" -> JBool(FALSE)])

DatabaseResult(lyrics) ==
    JDict([k \in {"success", "lyrics", "source", "song_title", "artist", "has_lyrics"} |->
        CASE k = "success" -> JBool(TRUE)
          [] k = "lyrics" -> lyrics
          [] k = "source" -> JStr("database")
          [] k = "song_title" -> JStr("title")
          [] k = "artist" -> JStr("artist")
          [] k = "has_lyrics" -> JBool(TRUE)])

NotAvailableResult ==
    JDict([k \in {"success", "lyrics", "source", "song_title", "artist", "has_lyrics",
                  "message"} |->
        CASE k = "success" -> JBool(TRUE)
          [] k = "lyrics" -> PyNone
          [] k = "source" -> PyNone
          [] k = "song_title" -> JStr("title")
          [] k = "artist" -> JStr("artist")
          [] k = "has_lyrics" -> JBool(FALSE)
          [] k = "message" -> JStr("Lyrics not available for this song")])

ErrorResponse(message) ==
    JDict([k \in {"success", "error", "lyrics", "source", "has_lyrics"} |->
        CASE k = "success" -> JBool(FALSE)
          [] k = "error" -> JStr(message)
          [] k = "lyrics" -> PyNone
          [] k = "source" -> PyNone
          [] k = "has_lyrics" -> JBool(FALSE)])

-----------------------------------------------------------------------------
(* Requests *)

Procs == {1, 2}

LyricsOps == {"lyrics", "refresh"}
EnrichOps == {"track", "album", "artist", "comprehensive"}

\* the status of the token response a request has seen: none yet
NoStatus == [st |-> "none", code |-> 0]
\* history: the audio-features response of a request
NoResponse == [st |-> "none", code |-> 0, mapping |-> FALSE]
Seen(response) ==
    [st |-> response.st, code |-> response.code, mapping |-> IsDict(response.body)]

IdleReq ==
    [op |-> "idle", pc |-> "idle", song |-> 0, creds |-> FALSE, lyr |-> PyNone,
     tok |-> PyNone, xs |-> NoStatus, ds |-> NoResponse, info |-> PyNone, t0 |-> 0,
     res |-> PyNone, live |-> FALSE, calls |-> <<>>,
     posted |-> PyNone, failed |-> {}, view |-> "none", arg |-> PyNone, todo |-> <<>>, data |-> <<>>, raw |-> <<>>,
     status |-> 0]

SetReq(p, r) == req' = [req EXCEPT ![p] = r]

\* LyricsService(): the credentials are loaded once, at construction
NewService(r, op) == [r EXCEPT !.op = op, !.creds = LoadCredentials(credFile)]

-----------------------------------------------------------------------------
(* Responses of the external services seen by the requests *)

\* token endpoint: the k-th token with expires_in e (Absent: field missing)
TokenBody(a, e) ==
    MkDict([k \in {"access_token", "expires_in"} |->
        IF k = "access_token" THEN a ELSE e])

ExpiresInVals == {Absent, JNum(120), JNum(60), JNum(30)}

\* 200 responses that carry the k-th token and a usable expires_in
GrantResponses(k, grants) == {HttpResp(200, TokenBody(JTok(k), e)) : e \in grants}

\* responses that carry no token the cache could keep
FailedTokenResponses ==
    {TransportError("Timeout"), TransportError("ConnectionError"),
     HttpResp(400, JDict([k \in {"error"} |-> JStr("invalid_client")])),
     HttpResp(500, NotJson),
     HttpResp(200, NotJson),
     HttpResp(200, EmptyList),
     HttpResp(200, TokenBody(JTok(0), JNull)),
     HttpResp(200, TokenBody(JTok(0), JStr("3600")))}

\* a 200 response without access_token
EmptyGrantResponses == {HttpResp(200, TokenBody(Absent, Absent))}

\* a track whose artist carries a null name
NamelessArtistItem ==
    JDict([k \in {"id", "artists"} |->
        IF k = "id" THEN JStr("id1")
        ELSE JList(<<JDict([x \in {"name"} |-> JNull])>>)])

\* search responses seen by the requests
SearchResponses ==
    {TransportError("Timeout"), HttpResp(401, EmptyDict), HttpResp(200, NotJson),
     HttpResp(200, GoodBody),
     HttpResp(200, BodyOf(JDict([k \in {"items"} |-> EmptyList]))),
     HttpResp(200, BodyOf(JDict([k \in {"items"} |->
        JList(<<JDict([k2 \in {"name"} |-> JStr("n1")])>>)]))),
     HttpResp(200, BodyOf(JDict([k \in {"items"} |-> JList(<<NamelessArtistItem>>)])))}

FeatureKeys ==
    {"danceability", "energy", "key", "loudness", "mode", "speechiness",
     "acousticness", "instrumentalness", "liveness", "valence", "tempo",
     "duration_ms", "time_signature"}

FeatureResponses ==
    {TransportError("Timeout"), TransportError("ConnectionError"),
     HttpResp(404, EmptyDict), HttpResp(401, EmptyDict), HttpResp(500, NotJson),
     HttpResp(200, NotJson),
     HttpResp(200, EmptyList),
     HttpResp(200, JDict([k \in {"tempo", "energy"} |-> JNum(1)]))}

GeniusHit(result) == JDict([k \in {"result"} |-> result])
GeniusBody(hits) ==
    JDict([k \in {"response"} |-> JDict([k2 \in {"hits"} |-> hits])])

GeniusResponses ==
    {TransportError("Timeout"), HttpResp(500, NotJson), HttpResp(200, NotJson),
     HttpResp(200, GeniusBody(EmptyList)),
     HttpResp(200, GeniusBody(JList(<<JStr("x")>>))),
     HttpResp(200, GeniusBody(JList(<<GeniusHit(EmptyDict)>>))),
     HttpResp(200, GeniusBody(JList(<<GeniusHit(
        JDict([k \in {"url"} |-> JStr("https://genius.com/x")]))>>)))}

-----------------------------------------------------------------------------
(* Token cache / auth exchange *)

\* the exchange storing the token for the whole of expires_in
ExchangeBodyNoMargin(response, entry, t) ==
    LET body == response.body
        access_token == DictGet(body, "access_token", PyNone)
        expires_in == DictGet(body, "expires_in", JNum(DEFAULT_EXPIRES_IN))
    IN  IF response.st # "http" THEN [ret |-> Exc(response.st), cache |-> entry]
        ELSE IF response.code # 200 THEN [ret |-> PyNone, cache |-> entry]
        ELSE IF body = NotJson THEN [ret |-> Exc("ValueError"), cache |-> entry]
        ELSE IF ~IsDict(body) THEN [ret |-> Exc("AttributeError"), cache |-> entry]
        ELSE IF expires_in.t # "num" THEN [ret |-> Exc("TypeError"), cache |-> entry]
        ELSE [ret |-> access_token, cache |-> CacheSet(access_token, expires_in.n, t)]

\* an exchange that looks at the cache again before storing and returns the
\* token it finds there
ExchangeBodyKeepFirst(response, entry, t) ==
    LET body == response.body
        access_token == DictGet(body, "access_token", PyNone)
        expires_in == DictGet(body, "expires_in", JNum(DEFAULT_EXPIRES_IN))
    IN  IF response.st # "http" THEN [ret |-> Exc(response.st), cache |-> entry]
        ELSE IF response.code # 200 THEN [ret |-> PyNone, cache |-> entry]
        ELSE IF body = NotJson THEN [ret |-> Exc("ValueError"), cache |-> entry]
        ELSE IF ~IsDict(body) THEN [ret |-> Exc("AttributeError"), cache |-> entry]
        ELSE IF expires_in.t # "num" THEN [ret |-> Exc("TypeError"), cache |-> entry]
        ELSE IF Truthy(CacheGet(entry, t))
        THEN [ret |-> CacheGet(entry, t), cache |-> entry]
        ELSE [ret |-> access_token,
              cache |-> CacheSet(access_token, expires_in.n - TOKEN_MARGIN, t)]

\* lines 156-187 for one response at time t, inside the try block: what is
\* returned (or raised) and what the cache entry becomes
ExchangeBody(response, entry, t) ==
    LET body == response.body
        access_token == DictGet(body, "access_token", PyNone)
        expires_in == DictGet(body, "expires_in", JNum(DEFAULT_EXPIRES_IN))
    IN  IF response.st # "http" THEN [ret |-> Exc(response.st), cache |-> entry]
        ELSE IF response.code # 200 THEN [ret |-> PyNone, cache |-> entry]
        ELSE IF body = NotJson THEN [ret |-> Exc("ValueError"), cache |-> entry]
        ELSE IF ~IsDict(body) THEN [ret |-> Exc("AttributeError"), cache |-> entry]
        ELSE IF expires_in.t # "num" THEN [ret |-> Exc("TypeError"), cache |-> entry]
        ELSE [ret |-> access_token,
              cache |-> CacheSet(access_token, expires_in.n - TOKEN_MARGIN, t)]

\* the exchange without its except clause: an exception reaches the caller
ExchangeOutcomeNoExcept(response, entry, t) == ExchangeBody(response, entry, t)

\* lines 156-191: the try block with `except Exception: return None`
ExchangeOutcome(response, entry, t) ==
    LET o == ExchangeBody(response, entry, t)
    IN  IF IsExc(o.ret) THEN [o EXCEPT !.ret = PyNone] ELSE o

\* the lookup that never consults the cache
TokenLookupNoCache(creds, entry, t) ==
    IF ~creds THEN "none" ELSE "miss"

\* the lookup with the cache consulted before the credentials
TokenLookupCacheFirst(creds, entry, t) ==
    IF Truthy(CacheGet(entry, t)) THEN "hit"
    ELSE IF ~creds THEN "none"
    ELSE "miss"

\* the token cache entry after a search or audio-features response evicted
\* on a 401
TokenCacheEvictOn401(entry, response) ==
    IF response.st = "http" /\ response.code = 401 THEN NoEntry ELSE entry

\* the token cache entry after a search or audio-features response was
\* handled (lyrics.py 255-267, 320-339): no branch touches the cache
TokenCacheAfter(entry, response) == entry

\* lines 148-154: "none" (no credentials), "hit" (cached token) or "miss"
TokenLookup(creds, entry, t) ==
    IF ~creds THEN "none"
    ELSE IF Truthy(CacheGet(entry, t)) THEN "hit"
    ELSE "miss"

-----------------------------------------------------------------------------
(* Secondary lyrics provider *)

\* _scrape_genius_lyrics(url)
ScrapeGeniusLyricsFound(url) == LaLaLa

ScrapeGeniusLyrics(url) == PyNone

\* _get_genius_lyrics: the lyrics text found, or None
GeniusLyrics(response) ==
    LET body == response.body
        hits == DictGet(DictGet(body, "response", EmptyDict), "hits", EmptyList)
        song_data ==
            IF hits.t = "list" THEN DictGet(hits.l[1], "result", Exc("KeyError"))
            ELSE Exc("TypeError")
        lyrics_url == DictGet(song_data, "url", PyNone)
    IN  IF response.st # "http" \/ response.code # 200 \/ body = NotJson THEN PyNone
        ELSE IF IsExc(hits) \/ ~Truthy(hits) THEN PyNone
        ELSE IF IsExc(song_data) \/ song_data.t # "dict" THEN PyNone
        ELSE IF Truthy(lyrics_url) THEN ScrapeGeniusLyrics(lyrics_url)
        ELSE PyNone

-----------------------------------------------------------------------------
(* Audio features *)

AudioFeatures(data) == JDict([k \in FeatureKeys |-> DictGet(data, k, PyNone)])

\* the audio-features step discarding the track info when the features are
\* not found
WithFeaturesNoneOn404(track_info, response) ==
    IF response.st = "http" /\ response.code = 404 THEN PyNone
    ELSE IF response.st = "http" /\ response.code = 200 /\ response.body # NotJson
            /\ IsDict(response.body)
    THEN JDict([k \in DOMAIN track_info.d \cup {"audio_features"} |->
            IF k = "audio_features" THEN AudioFeatures(response.body)
            ELSE track_info.d[k]])
    ELSE track_info

\* lines 287-339: the value _get_comprehensive_spotify_data returns
WithFeatures(track_info, response) ==
    IF response.st = "http" /\ response.code = 200 /\ response.body # NotJson
       /\ IsDict(response.body)
    THEN JDict([k \in DOMAIN track_info.d \cup {"audio_features"} |->
            IF k = "audio_features" THEN AudioFeatures(response.body)
            ELSE track_info.d[k]])
    ELSE track_info

-----------------------------------------------------------------------------
(* Steps of a request *)

\* an external request ended in a timeout, a connection error or a status
\* other than 200
CallFailed(response) == response.st # "http" \/ response.code # 200

\* history: the request what was issued and answered with response
Called(r, what, response) ==
    [r EXCEPT !.calls = Append(@, what),
              !.failed = IF CallFailed(response) THEN @ \cup {what} ELSE @]
\* get_lyrics_view / refresh_lyrics_view (songs/views.py 184-214): the status
\* of the response for what the service call returned or raised
LyricsViewStatus(value) == IF IsExc(value) THEN 500 ELSE 200

\* the call returns value: to the listing view that made it, which goes on
\* with the record, or to the caller of the operation; a lyrics view answers
\* with its status
Return(r, value) ==
    IF r.view # "none" THEN [r EXCEPT !.pc = "record", !.res = value]
    ELSE [r EXCEPT !.pc = "done", !.res = value,
                   !.status = IF r.op \in LyricsOps THEN LyricsViewStatus(value) ELSE 0]

\* the chain going on to the secondary provider without looking at the key
AfterSpotifyNoKeyCheck(r) == [r EXCEPT !.pc = "genius"]

\* _get_lyrics_from_sources after the metadata step yielded nothing
\* (lines 120-144, _get_external_lyrics lines 362-371)
AfterSpotify(r) ==
    IF geniusKey THEN [r EXCEPT !.pc = "genius"]
    ELSE [r EXCEPT !.pc = "set", !.res = NotAvailableResult]

\* a token function that asks once more after a failed exchange
AfterTokenRetry(r) ==
    IF ~Truthy(r.tok) /\ r.xs # NoStatus /\ Len(r.calls) < 2 THEN r
    ELSE IF r.pc \in {"token2", "exchange2"}
    THEN IF Truthy(r.tok) THEN [r EXCEPT !.pc = "features"] ELSE Return(r, r.info)
    ELSE IF Truthy(r.tok) THEN [r EXCEPT !.pc = "search"]
    ELSE IF r.op \in LyricsOps THEN AfterSpotify(r)
    ELSE Return(r, PyNone)

\* the caller of _get_spotify_access_token goes on with the token r.tok
AfterToken(r) ==
    IF r.pc \in {"token2", "exchange2"}
    THEN IF Truthy(r.tok) THEN [r EXCEPT !.pc = "features"] ELSE Return(r, r.info)
    ELSE IF Truthy(r.tok) THEN [r EXCEPT !.pc = "search"]
    ELSE IF r.op \in LyricsOps THEN AfterSpotify(r)
    ELSE Return(r, PyNone)

\* ', '.join(spotify_info['artists']) in the log call of _get_spotify_lyrics
\* (lines 350-358): a name that is not a str raises TypeError
JoinArtists(info) ==
    IF \E i \in 1..Len(info.d["artists"].l) : info.d["artists"].l[i].t # "str"
    THEN Exc("TypeError") ELSE JStr("joined")

\* the caller of the search goes on with the first result; the token was a
\* local of the search function.  An exception raised in _get_spotify_lyrics
\* is caught nowhere below the view: get_lyrics raises it
AfterSearch(r0, info) ==
    LET r == [r0 EXCEPT !.tok = PyNone, !.xs = NoStatus]
    IN  CASE r.op \in LyricsOps ->
                IF Truthy(info) /\ IsExc(JoinArtists(info))
                THEN Return(r, JoinArtists(info))
                ELSE AfterSpotify(r)
          [] r.op = "comprehensive" ->
                IF ~Truthy(info) THEN Return(r, PyNone)
                ELSE IF ~Truthy(DictGet(info, "spotify_id", PyNone)) THEN Return(r, info)
                ELSE [r EXCEPT !.pc = "token2", !.info = info]
          [] OTHER -> Return(r, info)

SearchKind(op) ==
    CASE op = "album" -> "album"
      [] op = "artist" -> "artist"
      [] OTHER -> "track"

\* get_lyrics lines 70-73, on a freshly constructed service
\* a get_lyrics that consults the cache before the catalog
LyricsLookupCacheFirst(p, op, s) ==
    LET r == [NewService(IdleReq, op) EXCEPT !.song = s, !.t0 = now]
    IN  IF ~songs[s].exists /\ ~Truthy(CacheGet(lyricsCache[s], now))
        THEN SetReq(p, Return(r, ErrorResponse("Song not found")))
        ELSE SetReq(p, [r EXCEPT !.pc = "cache", !.lyr = songs[s].lyrics])

LyricsLookup(p, op, s) ==
    LET r == [NewService(IdleReq, op) EXCEPT !.song = s, !.t0 = now]
    IN  IF ~songs[s].exists
        THEN SetReq(p, Return(r, ErrorResponse("Song not found")))
        ELSE SetReq(p, [r EXCEPT !.pc = "cache", !.lyr = songs[s].lyrics])

\* get_song_lyrics(song_id)
StartLyrics(p, s) ==
    /\ req[p].pc = "idle"
    /\ LyricsLookup(p, "lyrics", s)
    /\ UNCHANGED <<clock, config, songs, tokenCache, lyricsCache, issued,
                   lastCall, grant, parse>>

\* refresh_lyrics_cache(song_id): cache.delete(cache_key)
RefreshDelete(p, s) ==
    /\ req[p].pc = "idle"
    /\ lyricsCache' = [lyricsCache EXCEPT ![s] = NoEntry]
    /\ lastCall' = [lastCall EXCEPT ![s] = NoCall]
    /\ SetReq(p, [IdleReq EXCEPT !.op = "refresh", !.pc = "lookup", !.song = s])
    /\ UNCHANGED <<clock, config, songs, tokenCache, issued, grant, parse>>

\* refresh_lyrics_cache(song_id): service.get_lyrics(song_id)
RefreshLookup(p) ==
    /\ req[p].pc = "lookup"
    /\ LyricsLookup(p, "refresh", req[p].song)
    /\ UNCHANGED <<clock, config, songs, tokenCache, lyricsCache, issued,
                   lastCall, grant, parse>>

\* get_lyrics lines 75-84 and the database step of the chain (lines 94-103)
LyricsCacheCheck(p) ==
    LET r == req[p]
        cached == CacheGet(lyricsCache[r.song], now)
    IN  /\ r.pc = "cache"
        /\ IF Truthy(cached) THEN SetReq(p, Return(r, cached))
           ELSE IF HasLyrics(r.lyr)
           THEN SetReq(p, [r EXCEPT !.pc = "set", !.live = TRUE,
                                    !.res = DatabaseResult(r.lyr)])
           ELSE SetReq(p, [r EXCEPT !.pc = "token", !.live = TRUE])
        /\ UNCHANGED <<clock, config, songs, tokenCache, lyricsCache, issued,
                       lastCall, grant, parse>>

\* _get_spotify_access_token lines 148-154
TokenCheck(p) ==
    LET r == req[p]
        found == TokenLookup(r.creds, tokenCache, now)
    IN  /\ r.pc \in {"token", "token2"}
        /\ CASE found = "none" -> SetReq(p, AfterToken([r EXCEPT !.tok = PyNone]))
             [] found = "hit" ->
                    SetReq(p, AfterToken([r EXCEPT !.tok = CacheGet(tokenCache, now)]))
             [] found = "miss" ->
                    SetReq(p, [r EXCEPT !.pc = IF r.pc = "token" THEN "exchange"
                                               ELSE "exchange2"])
        /\ UNCHANGED <<clock, config, songs, tokenCache, lyricsCache, issued,
                       lastCall, grant, parse>>

\* _get_spotify_access_token lines 156-191: the exchange and its outcome;
\* grants are the expires_in values a successful response may carry
TokenExchange(p, grants) ==
    LET r == req[p]
    IN  /\ r.pc \in {"exchange", "exchange2"}
        /\ \E response \in FailedTokenResponses \cup EmptyGrantResponses
                             \cup (IF issued < MaxTokens
                                   THEN GrantResponses(issued + 1, grants) ELSE {}) :
              LET o == ExchangeOutcome(response, tokenCache, now)
              IN  /\ tokenCache' = o.cache
                  /\ issued' = IF response \in GrantResponses(issued + 1, grants)
                               THEN issued + 1 ELSE issued
                  /\ grant' = IF response \in GrantResponses(issued + 1, grants)
                              THEN [present |-> TRUE, token |-> JTok(issued + 1), at |-> now,
                                    expires_in |->
                                        DictGet(response.body, "expires_in", Absent),
                                    refused |-> FALSE]
                              ELSE grant
                  /\ SetReq(p, AfterToken(Called(
                        [r EXCEPT !.tok = o.ret,
                                  !.xs = [st |-> response.st, code |-> response.code]],
                        "token", response)))
        /\ UNCHANGED <<clock, config, songs, lyricsCache, lastCall, parse>>

\* requests.post(token_url, ...) of the exchange (line 174): the provider
\* answers; another worker may run before the answer is handled
ExchangePost(p, failures, grants) ==
    LET r == req[p]
    IN  /\ r.pc = "exchange"
        /\ \E response \in failures
                             \cup (IF issued < MaxTokens
                                   THEN GrantResponses(issued + 1, grants) ELSE {}) :
              /\ issued' = IF response \in GrantResponses(issued + 1, grants)
                           THEN issued + 1 ELSE issued
              /\ SetReq(p, [r EXCEPT !.pc = "store", !.posted = response])
        /\ UNCHANGED <<clock, config, songs, tokenCache, lyricsCache, lastCall, grant,
                       parse>>

\* the answer of the exchange is handled (lines 176-191): cache.set and
\* return
ExchangeStore(p) ==
    LET r == req[p]
        o == ExchangeOutcome(r.posted, tokenCache, now)
    IN  /\ r.pc = "store"
        /\ tokenCache' = o.cache
        /\ grant' = IF o.cache # tokenCache
                    THEN [present |-> TRUE, token |-> o.cache.value, at |-> now,
                          expires_in |-> DictGet(r.posted.body, "expires_in", Absent),
                          refused |-> FALSE]
                    ELSE grant
        /\ SetReq(p, AfterToken(Called(
              [r EXCEPT !.pc = "exchange", !.tok = o.ret,
                        !.xs = [st |-> r.posted.st, code |-> r.posted.code]],
              "token", r.posted)))
        /\ UNCHANGED <<clock, config, songs, lyricsCache, issued, lastCall, parse>>

\* the request failed or its answer could not be used
Refused(response) ==
    response.st # "http" \/ response.code # 200 \/ ~IsDict(response.body)

\* history: a request made with the token of the latest grant has failed
NoteRefused(r, response) ==
    IF grant.present /\ r.tok = grant.token /\ Refused(response)
    THEN [grant EXCEPT !.refused = TRUE] ELSE grant

\* the search request of _get_spotify_track_info / _get_spotify_album_data /
\* _get_spotify_artist_data
SearchFrom(p, responses) ==
    LET r == req[p]
    IN  /\ r.pc = "search"
        /\ \E response \in responses :
              /\ SetReq(p, AfterSearch(Called(r, "search", response),
                                       SearchResult(SearchKind(r.op), response)))
              /\ tokenCache' = TokenCacheAfter(tokenCache, response)
              /\ grant' = NoteRefused(r, response)
        /\ UNCHANGED <<clock, config, songs, lyricsCache, issued, lastCall, parse>>

Search(p) == SearchFrom(p, SearchResponses)

\* _get_comprehensive_spotify_data lines 287-339
Features(p) ==
    LET r == req[p]
    IN  /\ r.pc = "features"
        /\ \E response \in FeatureResponses :
              /\ SetReq(p, Return([Called(r, "features", response) EXCEPT
                                      !.tok = PyNone, !.xs = NoStatus, !.info = PyNone,
                                      !.ds = Seen(response)],
                                  WithFeatures(r.info, response)))
              /\ tokenCache' = TokenCacheAfter(tokenCache, response)
              /\ grant' = NoteRefused(r, response)
        /\ UNCHANGED <<clock, config, songs, lyricsCache, issued, lastCall, parse>>

\* _get_external_lyrics / _get_genius_lyrics, then lines 122-144
Genius(p) ==
    LET r == req[p]
    IN  /\ r.pc = "genius"
        /\ \E response \in GeniusResponses :
              LET external_lyrics == GeniusLyrics(response)
              IN  IF Truthy(external_lyrics)
                  THEN /\ songs' = [songs EXCEPT ![r.song].lyrics = external_lyrics]
                       /\ SetReq(p, [Called(r, "genius", response) EXCEPT !.pc = "set",
                            !.res = JDict([k \in DOMAIN DatabaseResult(external_lyrics).d |->
                                       IF k = "source" THEN JStr("external_api")
                                       ELSE DatabaseResult(external_lyrics).d[k]])])
                  ELSE /\ songs' = songs
                       /\ SetReq(p, [Called(r, "genius", response) EXCEPT !.pc = "set",
                                        !.res = NotAvailableResult])
        /\ UNCHANGED <<clock, config, tokenCache, lyricsCache, issued, lastCall, grant,
                       parse>>

\* get_lyrics lines 86-89
LyricsCacheSet(p) ==
    LET r == req[p]
    IN  /\ r.pc = "set"
        /\ lyricsCache' = [lyricsCache EXCEPT ![r.song] = CacheSet(r.res, LYRICS_TTL, now)]
        /\ SetReq(p, Return(r, r.res))
        /\ UNCHANGED <<clock, config, songs, tokenCache, issued, lastCall, grant, parse>>

\* an enrichment operation begins: the service is constructed and asks for
\* the access token
StartEnrich(p, op) ==
    /\ req[p].pc = "idle"
    /\ SetReq(p, [NewService(IdleReq, op) EXCEPT !.pc = "token", !.t0 = now])
    /\ UNCHANGED <<clock, config, songs, tokenCache, lyricsCache, issued,
                   lastCall, grant, parse>>

-----------------------------------------------------------------------------
(* Listing views: one enrichment call per catalog record *)

\* the albums of the catalog, in catalog order
AlbumIds == <<1, 2, 3>>

\* the songs of the catalog, in catalog order
RECURSIVE SongList(_)
SongList(i) ==
    IF i \notin SongIds THEN <<>>
    ELSE (IF songs[i].exists THEN <<i>> ELSE <<>>) \o SongList(i + 1)

\* the song ids the route <int:song_id>/ is asked for
DetailIds == {0, 1, 2}

\* songs/views.py 68-91: spotify_data built from what the enrichment call
\* returned; evaluating a field may raise
SpotifyDataBody(spotify_info) ==
    LET album_data == DictGet(spotify_info, "album", EmptyDict)
        images == DictGet(album_data, "images", EmptyList)
        album_image ==
            IF ~IsDict(album_data) THEN PyNone
            ELSE IF ~Truthy(images) THEN PyNone
            ELSE IF IsExc(LenPositive(images)) THEN LenPositive(images)
            ELSE DictGet(FirstItem(images), "url", PyNone)
    IN  DictOrExc([k \in {"spotify_id", "preview_url", "external_url", "popularity",
                          "album_image", "duration_ms", "audio_features"} |->
            CASE k = "spotify_id" -> DictGet(spotify_info, "spotify_id", JStr(""))
              [] k = "preview_url" -> DictGet(spotify_info, "preview_url", PyNone)
              [] k = "external_url" -> SubField(spotify_info, "external_urls", "spotify")
              [] k = "popularity" -> DictGet(spotify_info, "popularity", PyNone)
              [] k = "album_image" -> album_image
              [] k = "duration_ms" -> DictGet(spotify_info, "duration_ms", PyNone)
              [] k = "audio_features" -> DictGet(spotify_info, "audio_features", EmptyDict)])

\* songs/views.py 65-96: the try/except around the enrichment of one song
SpotifyData(spotify_info) ==
    IF IsExc(spotify_info) THEN PyNone
    ELSE IF Truthy(spotify_info) /\ IsDict(spotify_info)
         THEN IF IsExc(SpotifyDataBody(spotify_info)) THEN PyNone
              ELSE SpotifyDataBody(spotify_info)
    ELSE PyNone

\* the entry of the response for record id, given what its enrichment call
\* returned
Entry(view, id, value) ==
    [id |-> id,
     spotify_data |-> IF view = "songs" THEN SpotifyData(value) ELSE value]

\* a listing loop that gives up at the first record without enrichment
AfterRecordAbort(r, entry) ==
    IF entry.spotify_data = PyNone
    THEN [r EXCEPT !.pc = "done", !.status = 500, !.data = <<>>, !.res = PyNone]
    ELSE LET data == Append(r.data, entry)
         IN  IF Len(data) = Len(r.todo)
             THEN [r EXCEPT !.pc = "done", !.status = 200, !.data = data, !.res = PyNone]
             ELSE [r EXCEPT !.pc = "token", !.data = data, !.res = PyNone]

\* the loop of a listing view after the entry of a record: the next record,
\* or the JSON response (songs/views.py 41-98, albums/views.py 81-107)
AfterRecord(r, entry) ==
    LET data == Append(r.data, entry)
    IN  IF Len(data) = Len(r.todo)
        THEN [r EXCEPT !.pc = "done", !.status = 200, !.data = data, !.res = PyNone]
        ELSE [r EXCEPT !.pc = "token", !.data = data, !.res = PyNone]

\* the listing of the records todo begins: with no record the response is
\* the empty list
BeginListing(r, todo) ==
    IF todo = <<>> THEN [r EXCEPT !.pc = "done", !.status = 200]
    ELSE [r EXCEPT !.pc = "token", !.todo = todo]

\* get_song_details_with_spotify_data(request, song_id) (songs/views.py
\* 18-37): `if song_id:` sends the id 0 to the listing of all songs
StartSongDetails(p, song_id) ==
    LET r == [NewService(IdleReq, "comprehensive") EXCEPT
                  !.view = "songs", !.arg = JNum(song_id), !.t0 = now]
    IN  /\ req[p].pc = "idle"
        /\ IF song_id # 0
           THEN IF song_id \in SongIds /\ songs[song_id].exists
                THEN SetReq(p, BeginListing(r, <<song_id>>))
                ELSE SetReq(p, [r EXCEPT !.pc = "done", !.status = 404,
                                         !.res = JDict([k \in {"error"} |->
                                                    JStr("Song not found")])])
           ELSE SetReq(p, BeginListing(r, SongList(1)))
        /\ UNCHANGED <<clock, config, songs, tokenCache, lyricsCache, issued,
                       lastCall, grant, parse>>

\* get_song_details_with_spotify_data(request) on the route of all songs
StartSongList(p) ==
    /\ req[p].pc = "idle"
    /\ SetReq(p, BeginListing(
          [NewService(IdleReq, "comprehensive") EXCEPT !.view = "songs", !.t0 = now],
          SongList(1)))
    /\ UNCHANGED <<clock, config, songs, tokenCache, lyricsCache, issued,
                   lastCall, grant, parse>>

\* album_list(request) (albums/views.py 73-107)
StartAlbumList(p) ==
    /\ req[p].pc = "idle"
    /\ SetReq(p, BeginListing(
          [NewService(IdleReq, "album") EXCEPT !.view = "albums", !.t0 = now],
          AlbumIds))
    /\ UNCHANGED <<clock, config, songs, tokenCache, lyricsCache, issued,
                   lastCall, grant, parse>>

\* the enrichment call of the current record has returned: its entry is
\* appended (raw keeps what the call returned, as history)
ViewRecord(p) ==
    LET r == req[p]
        id == r.todo[Len(r.data) + 1]
        next == [r EXCEPT !.raw = Append(@, r.res), !.tok = PyNone, !.xs = NoStatus,
                          !.ds = NoResponse, !.info = PyNone, !.calls = <<>>,
                          !.failed = {}]
    IN  /\ r.pc = "record"
        /\ SetReq(p, AfterRecord(next, Entry(r.view, id, r.res)))
        /\ UNCHANGED <<clock, config, songs, tokenCache, lyricsCache, issued,
                       lastCall, grant, parse>>

\* the response has been delivered and the worker is free again; a
\* get_lyrics call that found its song goes into the history
Finish(p) ==
    LET r == req[p]
    IN  /\ r.pc = "done"
        /\ SetReq(p, IdleReq)
        /\ lastCall' = IF r.op \in LyricsOps /\ ~IsExc(r.res)
                          /\ r.res # ErrorResponse("Song not found")
                       THEN [lastCall EXCEPT ![r.song] =
                               [present |-> TRUE, value |-> r.res, at |-> r.t0]]
                       ELSE lastCall
        /\ UNCHANGED <<clock, config, songs, tokenCache, lyricsCache, issued, grant,
                       parse>>

-----------------------------------------------------------------------------
(* Environment *)

\* manage_song PUT with 'lyrics' in the JSON body
UpdateLyrics(s, v) ==
    /\ songs[s].exists
    /\ songs[s].lyrics # v
    /\ songs' = [songs EXCEPT ![s].lyrics = v]
    /\ UNCHANGED <<clock, config, tokenCache, lyricsCache, issued, req,
                   lastCall, grant, parse>>

\* the catalog store deletes a song (the core only reads the catalog)
DeleteSong(s) ==
    /\ songs[s].exists
    /\ songs' = [songs EXCEPT ![s] = NoSong]
    /\ UNCHANGED <<clock, config, tokenCache, lyricsCache, issued, req,
                   lastCall, grant, parse>>

\* the configuration resource is written, removed or damaged
SetCredFile(f) ==
    /\ credFile # f
    /\ credFile' = f
    /\ UNCHANGED <<clock, geniusKey, songs, tokenCache, lyricsCache, issued,
                   req, lastCall, grant, parse>>

\* the instants at which one of the cache entries stops being valid
Expiries(entries) ==
    {e.expires_at : e \in {x \in entries : x.present /\ x.expires_at > now}}

LyricsEntries == {lyricsCache[s] : s \in SongIds}

\* the clock advances to just before or exactly the expiry of one of the
\* entries, or by one second when none of them is waiting to expire
Tick(entries) ==
    /\ ticks < MaxTicks
    /\ \E t \in IF Expiries(entries) = {} THEN {now + 1}
                ELSE {e - 1 : e \in Expiries(entries)} \cup Expiries(entries) :
          /\ t > now
          /\ now' = t
    /\ ticks' = ticks + 1
    /\ UNCHANGED <<config, songs, tokenCache, lyricsCache, issued, req,
                   lastCall, grant, parse>>

-----------------------------------------------------------------------------
(* Specifications *)

InitCommon ==
    /\ SideIdle
    /\ now = 0 /\ ticks = 0
    /\ tokenCache = NoEntry
    /\ lyricsCache = [s \in SongIds |-> NoEntry]
    /\ issued = 0
    /\ req = [p \in Procs |-> IdleReq]
    /\ lastCall = [s \in SongIds |-> NoCall]
    /\ grant = NoGrant
    /\ resp = TransportError("Timeout")
    /\ out = [k \in Kinds |-> Pending]

OneSong(lyrics) ==
    [s \in SongIds |-> IF s = 1 THEN [exists |-> TRUE, lyrics |-> lyrics] ELSE NoSong]

\* lyrics requests served one after the other, the catalog being edited and
\* the clock advancing in between
Init ==
    /\ InitCommon
    /\ credFile \in {"ok", "absent"}
    /\ geniusKey = (credFile = "ok")
    /\ songs = OneSong(PyNone)

Next ==
    \/ \E s \in SongIds : StartLyrics(1, s)
    \/ \E s \in SongIds : RefreshDelete(1, s)
    \/ RefreshLookup(1)
    \/ LyricsCacheCheck(1)
    \/ TokenCheck(1)
    \/ TokenExchange(1, {Absent})
    \/ Search(1)
    \/ Genius(1)
    \/ LyricsCacheSet(1)
    \/ Finish(1)
    \/ \E s \in SongIds, v \in LyricsVals : UpdateLyrics(s, v)
    \/ (req[1].pc = "idle" /\ Tick(LyricsEntries))

Spec == Init /\ [][Next]_vars

\* lyrics requests of two workers interleaved
InitRace ==
    /\ InitCommon
    /\ credFile \in {"ok", "absent"}
    /\ geniusKey \in BOOLEAN
    /\ songs \in {OneSong(Blank), OneSong(LaLaLa)}

NextRace ==
    \/ \E p \in Procs, s \in SongIds : StartLyrics(p, s)
    \/ \E p \in Procs, s \in SongIds : RefreshDelete(p, s)
    \/ \E p \in Procs : RefreshLookup(p)
    \/ \E p \in Procs : LyricsCacheCheck(p)
    \/ \E p \in Procs : TokenCheck(p)
    \/ \E p \in Procs : TokenExchange(p, {Absent})
    \/ \E p \in Procs : Search(p)
    \/ \E p \in Procs : Genius(p)
    \/ \E p \in Procs : LyricsCacheSet(p)
    \/ \E p \in Procs : Finish(p)

SpecRace == InitRace /\ [][NextRace]_vars

\* enrichment requests (track, album, artist search, comprehensive data)
\* served one after the other while the configuration resource changes
InitEnrich ==
    /\ InitCommon
    /\ credFile \in CredFiles
    /\ geniusKey = FALSE
    /\ songs = [s \in SongIds |-> NoSong]

NextEnrich ==
    \/ \E op \in EnrichOps : StartEnrich(1, op)
    \/ TokenCheck(1)
    \/ TokenExchange(1, ExpiresInVals)
    \/ Search(1)
    \/ Features(1)
    \/ Finish(1)
    \/ \E f \in CredFiles : req[1].pc = "idle" /\ SetCredFile(f)
    \/ Tick({tokenCache})

SpecEnrich == InitEnrich /\ [][NextEnrich]_vars

\* listing and detail requests served one after the other
InitBatch ==
    /\ InitCommon
    /\ credFile \in {"ok", "absent"}
    /\ geniusKey = FALSE
    /\ songs \in [SongIds -> {NoSong, [exists |-> TRUE, lyrics |-> PyNone]}]

NextBatch ==
    \/ \E song_id \in DetailIds : StartSongDetails(1, song_id)
    \/ StartSongList(1)
    \/ StartAlbumList(1)
    \/ TokenCheck(1)
    \/ TokenExchange(1, {Absent, JNum(60)})
    \/ Search(1)
    \/ Features(1)
    \/ ViewRecord(1)
    \/ Finish(1)

SpecBatch == InitBatch /\ [][NextBatch]_vars

\* a track of the search response whose album carries two images
TrackWithImages ==
    JDict([k \in {"id", "name", "artists", "album"} |->
        CASE k = "id" -> JStr("id3")
          [] k = "name" -> JStr("n3")
          [] k = "artists" -> JList(<<JDict([x \in {"name"} |-> JStr("A")])>>)
          [] k = "album" ->
                JDict([x \in {"name", "images"} |->
                    IF x = "name" THEN JStr("Alb")
                    ELSE JList(<<JDict([u \in {"url"} |-> JStr("img1")]),
                                 JDict([u \in {"url"} |-> JStr("img2")])>>)])])

ImageResponses ==
    {TransportError("Timeout"), HttpResp(200, GoodBody),
     HttpResp(200, BodyOf(JDict([k \in {"items"} |-> JList(<<TrackWithImages>>)])))}

\* the song-detail route, the search finding tracks with and without album
\* images
NextDetails ==
    \/ \E song_id \in DetailIds : StartSongDetails(1, song_id)
    \/ TokenCheck(1)
    \/ TokenExchange(1, {Absent, JNum(60)})
    \/ SearchFrom(1, ImageResponses)
    \/ Features(1)
    \/ ViewRecord(1)
    \/ Finish(1)

SpecDetails == InitBatch /\ [][NextDetails]_vars

\* lyrics runs and enrichment operations of one worker, one after the other
InitCalls ==
    /\ InitCommon
    /\ credFile \in {"ok", "absent"}
    /\ geniusKey \in BOOLEAN
    /\ songs = OneSong(PyNone)

NextCalls ==
    \/ \E s \in SongIds : StartLyrics(1, s)
    \/ \E s \in SongIds : RefreshDelete(1, s)
    \/ RefreshLookup(1)
    \/ LyricsCacheCheck(1)
    \/ \E op \in EnrichOps : StartEnrich(1, op)
    \/ TokenCheck(1)
    \/ TokenExchange(1, {Absent, JNum(60)})
    \/ Search(1)
    \/ Features(1)
    \/ Genius(1)
    \/ LyricsCacheSet(1)
    \/ Finish(1)
    \/ \E s \in SongIds : DeleteSong(s)

SpecCalls == InitCalls /\ [][NextCalls]_vars

\* two workers whose token exchanges interleave
InitExchange ==
    /\ InitCommon
    /\ credFile = "ok"
    /\ geniusKey = FALSE
    /\ songs = [s \in SongIds |-> NoSong]

NextExchange ==
    \/ \E p \in Procs : StartEnrich(p, "track")
    \/ \E p \in Procs : TokenCheck(p)
    \/ \E p \in Procs : ExchangePost(p, {TransportError("Timeout")},
                                       {JNum(120), JNum(60)})
    \/ \E p \in Procs : ExchangeStore(p)
    \/ \E p \in Procs : Search(p)
    \/ \E p \in Procs : Finish(p)
    \/ (\E p \in Procs : req[p].pc = "idle") /\ Tick({tokenCache})

SpecExchange == InitExchange /\ [][NextExchange]_vars

-----------------------------------------------------------------------------
(* The credentials file: written by setup_spotify, read by the loader *)

\* the longest credentials file the loader is handed
MaxLines == 3

\* a file is a sequence of lines as written: `key<sep>value` with or without
\* blanks around the separator, a blank line, a comment
KeyValue(key, sep, pad, value) ==
    [kind |-> "kv", key |-> key, sep |-> sep, pad |-> pad, value |-> value]
BlankLine == [kind |-> "blank"]
CommentLine == [kind |-> "comment"]

\* the characters of a line (a key name counts as one character)
Text(line) ==
    CASE line.kind = "blank" -> <<" ">>
      [] line.kind = "comment" -> <<" ", "#", "client_id", ":", "v">>
      [] OTHER -> <<line.key>> \o (IF line.pad THEN <<" ">> ELSE <<>>) \o <<line.sep>>
                  \o (IF line.pad THEN <<" ">> ELSE <<>>) \o line.value

\* the values a line may carry
SecretVals == {<<"v">>, <<"v", ":", "w">>}

WrittenLines ==
    {KeyValue(key, sep, TRUE, value) :
        key \in {"client_id", "Client_Secret"}, sep \in {":", "="},
        value \in SecretVals}
    \cup {KeyValue(key, sep, FALSE, <<"v">>) :
        key \in {"client_id", "Client_Secret"}, sep \in {":", "="}}
    \cup {BlankLine, CommentLine}

Files == UNION {[1..n -> WrittenLines] : n \in 0..MaxLines}

\* str.lower()
Lower(q) ==
    [i \in 1..Len(q) |->
        CASE q[i] = "Client_Secret" -> "client_secret"
          [] q[i] = "CLIENT_ID" -> "client_id"
          [] OTHER -> q[i]]

\* line.split(sep, 1): the parts before and after the first sep
Split(q, sep) ==
    LET i == CHOOSE i \in 1..Len(q) :
                 q[i] = sep /\ \A j \in 1..(i - 1) : q[j] # sep
    IN  <<SubSeq(q, 1, i - 1), SubSeq(q, i + 1, Len(q))>>

Contains(q, c) == \E i \in 1..Len(q) : q[i] = c

\* the body of the loop of _load_spotify_credentials (lines 36-45)
ParseLine(credentials, line) ==
    LET stripped == RStrip(LStrip(line))
        parts == IF Contains(line, ":") THEN Split(line, ":") ELSE Split(line, "=")
        key == Lower(RStrip(LStrip(parts[1])))
        value == RStrip(LStrip(parts[2]))
    IN  IF stripped = <<>> \/ Head(stripped) = "#" THEN credentials
        ELSE IF ~Contains(line, ":") /\ ~Contains(line, "=") THEN credentials
        ELSE [k \in DOMAIN credentials \cup {key} |->
                 IF k = key THEN value ELSE credentials[k]]

RECURSIVE ParseLines(_, _)
ParseLines(credentials, lines) ==
    IF lines = <<>> THEN credentials
    ELSE ParseLines(ParseLine(credentials, Head(lines)), Tail(lines))

\* _load_spotify_credentials with the file at the loader's path: None when
\* the file is missing or a required key is
LoadSpotifyCredentials(file) ==
    IF ~file.exists THEN PyNone
    ELSE LET credentials ==
                 ParseLines(<<>>, [i \in 1..Len(file.lines) |-> Text(file.lines[i])])
         IN  IF {<<"client_id">>, <<"client_secret">>} \subseteq DOMAIN credentials
             THEN JDict(credentials) ELSE PyNone

\* LyricsService(): the constructor loads the credentials
Construct ==
    /\ service = NoService
    /\ service' = LoadSpotifyCredentials(fs[LoaderPath])
    /\ UNCHANGED <<core, fs, streaming, top, managed, batch>>

\* setup_spotify --client-id I --client-secret S (handle, lines 15-80): an
\* existing file is overwritten only when the operator answers y; the file
\* is written and a LyricsService is constructed to test the credentials
Setup(client_id, client_secret, overwrite) ==
    /\ service = NoService
    /\ ~fs[SetupPath].exists \/ overwrite
    /\ fs' = [fs EXCEPT ![SetupPath] = FileOf(
                 <<KeyValue("client_id", ":", FALSE, <<" ">> \o client_id),
                   KeyValue("client_secret", ":", FALSE, <<" ">> \o client_secret)>>)]
    /\ service' = LoadSpotifyCredentials(fs'[LoaderPath])
    /\ UNCHANGED <<core, streaming, top, managed, batch>>

\* the service is dropped; the next one loads the file again
Discard ==
    /\ service # NoService
    /\ service' = NoService
    /\ UNCHANGED <<core, fs, streaming, top, managed, batch>>

\* everything but the operations under study is idle
RestIdle ==
    /\ now = 0 /\ ticks = 0
    /\ credFile = "ok" /\ geniusKey = FALSE
    /\ songs = <<>>
    /\ tokenCache = NoEntry /\ lyricsCache = <<>>
    /\ issued = 0 /\ req = <<>> /\ lastCall = <<>> /\ grant = <<>>
    /\ resp = TransportError("Timeout")
    /\ out = [k \in Kinds |-> Pending]

InitLoad ==
    /\ RestIdle
    /\ service = NoService
    /\ streaming = <<>>
    /\ top = <<>> /\ managed = <<>> /\ batch = <<>>
    /\ \E file \in {FileOf(lines) : lines \in Files} \cup {NoFile} :
          fs = [path \in {LoaderPath, SetupPath} |->
                   IF path = LoaderPath THEN file ELSE NoFile]

NextLoad ==
    \/ Construct
    \/ \E I \in SecretVals, overwrite \in BOOLEAN : Setup(I, <<"w">>, overwrite)
    \/ Discard

SpecLoad == InitLoad /\ [][NextLoad]_vars

-----------------------------------------------------------------------------
(* Stream tracking *)

\* the most Stream records the store is let to hold for a song
MaxStreams == 3

\* the ids track_stream is called with; the last of each is not in its table
StreamSongIds == {1, 2}
KnownSongs == {1}
UserIds == {1, 2}
KnownUsers == {1}

NoTrack == [pc |-> "idle", song_id |-> 0, user_id |-> 0, ret |-> PyNone]

InitStreams ==
    /\ RestIdle
    /\ fs = [path \in {LoaderPath, SetupPath} |-> NoFile]
    /\ service = NoService
    /\ top = <<>> /\ managed = <<>> /\ batch = <<>>
    /\ \E n \in {0, 2} :
          streaming = [initial |-> n,
                       total_streams |-> [s \in KnownSongs |-> n],
                       records |-> [s \in KnownSongs |-> 0],
                       call |-> [p \in Procs |-> NoTrack]]

\* track_stream(song_id, user_id), step by step (streams.py 8-31): the two
\* lookups; Stream.objects.create; `song.streams += 1`, where song.streams is
\* the related manager of the Stream records (related_name='streams',
\* models.py 35) and the counter field is total_streams, so the statement
\* raises TypeError, which the except clause does not name
TrackStream(p) ==
    LET c == streaming.call[p]
    IN  /\ \/ /\ c.pc = "idle"
              /\ \E song_id \in StreamSongIds, user_id \in UserIds :
                    streaming' = [streaming EXCEPT !.call[p] =
                        IF song_id \in KnownSongs /\ user_id \in KnownUsers
                        THEN [c EXCEPT !.pc = "create", !.song_id = song_id,
                                       !.user_id = user_id]
                        ELSE [c EXCEPT !.pc = "done", !.song_id = song_id,
                                       !.user_id = user_id, !.ret = PyNone]]
           \/ /\ c.pc = "create"
              /\ streaming.records[c.song_id] < MaxStreams
              /\ streaming' = [streaming EXCEPT !.records[c.song_id] = @ + 1,
                                                !.call[p].pc = "count"]
           \/ /\ c.pc = "count"
              /\ streaming' = [streaming EXCEPT !.call[p].pc = "done",
                                                !.call[p].ret = Exc("TypeError")]
           \/ /\ c.pc = "done"
              /\ streaming' = [streaming EXCEPT !.call[p] = NoTrack]
        /\ UNCHANGED <<core, fs, service, top, managed, batch>>

NextStreams == \E p \in Procs : TrackStream(p)

SpecStreams == InitStreams /\ [][NextStreams]_vars

-----------------------------------------------------------------------------
(* Top songs *)

\* the most songs the analytics cover
MaxSongs == 3

\* the Stream records a song may have, and the limits the endpoint is asked
\* with: int(request.GET.get('limit', 10)) takes every integer
StreamCounts == 0..2
TopLimits == -2..4

\* get_all_songs_stream_analytics before the sort: one entry per song, in
\* catalog order
Analytics(counts) ==
    [i \in 1..Len(counts) |-> [song_id |-> i, total_streams |-> counts[i]]]

\* analytics.sort(key=total_streams, reverse=True): stable, entries with
\* equal keys keep their order
RECURSIVE SortDesc(_)
SortDesc(q) ==
    IF q = <<>> THEN <<>>
    ELSE LET rest == SortDesc(SubSeq(q, 1, Len(q) - 1))
             x == q[Len(q)]
             before == SelectSeq(rest, LAMBDA y : y.total_streams >= x.total_streams)
             after == SelectSeq(rest, LAMBDA y : y.total_streams < x.total_streams)
         IN  before \o <<x>> \o after

\* analytics[:limit]; a negative limit counts from the end
Slice(q, limit) ==
    IF limit >= 0 THEN SubSeq(q, 1, IF limit < Len(q) THEN limit ELSE Len(q))
    ELSE SubSeq(q, 1, IF Len(q) + limit > 0 THEN Len(q) + limit ELSE 0)

\* get_top_songs(limit, time_period)
GetTopSongs(counts, limit) == Slice(SortDesc(Analytics(counts)), limit)

InitTop ==
    /\ RestIdle
    /\ fs = [path \in {LoaderPath, SetupPath} |-> NoFile]
    /\ service = NoService
    /\ streaming = <<>> /\ managed = <<>> /\ batch = <<>>
    /\ \E n \in 0..MaxSongs, limit \in TopLimits :
          \E counts \in [1..n -> StreamCounts] :
              top = [counts |-> counts, limit |-> limit, done |-> FALSE,
                     top_songs |-> <<>>]

\* top_songs(request) (songs/views.py 172-181)
TopSongs ==
    /\ ~top.done
    /\ top' = [top EXCEPT !.done = TRUE,
                          !.top_songs = GetTopSongs(top.counts, top.limit)]
    /\ UNCHANGED <<core, fs, service, streaming, managed, batch>>

\* the same request is made again
TopAgain ==
    /\ top.done
    /\ top' = [top EXCEPT !.done = FALSE, !.top_songs = <<>>]
    /\ UNCHANGED <<core, fs, service, streaming, managed, batch>>

NextTop == TopSongs \/ TopAgain

SpecTop == InitTop /\ [][NextTop]_vars

(***************************************************************************)
(* artists/artist_songs.py: manage_song                                    *)
(***************************************************************************)

ArtistIds == {1, 2}
ManagedSongIds == {1, 2, 3}
Methods == {"GET", "PUT", "DELETE", "POST"}
AllowedMethods == {"GET", "PUT", "DELETE"}

\* request.user: anonymous, or a user with a role and, possibly, an artist
\* profile (profile 0: request.user.artist_profile raises DoesNotExist)
Requesters ==
    {[auth |-> FALSE, role |-> "none", profile |-> 0]}
    \cup [auth : {TRUE}, role : {"user", "artist"}, profile : {0, 1}]

\* the song record as manage_song reads and writes it; genre 0 and an empty
\* file name stand for None
DoesNotExist ==
    [exists |-> FALSE, artist |-> 0, title |-> "", lyrics |-> "",
     release_date |-> "", genre |-> 0, audio_file |-> "", cover_image |-> "",
     duration |-> 0]
StoredSong(artist, audio_file, cover_image) ==
    [exists |-> TRUE, artist |-> artist, title |-> "old", lyrics |-> "old",
     release_date |-> "old", genre |-> 0, audio_file |-> audio_file,
     cover_image |-> cover_image, duration |-> 1]

\* the names the storage gives to uploaded files
UploadName == [s \in ManagedSongIds |-> IF s = 1 THEN "n1" ELSE IF s = 2 THEN "n2" ELSE "n3"]
CoverName == [s \in ManagedSongIds |-> IF s = 1 THEN "d1" ELSE IF s = 2 THEN "d2" ELSE "d3"]

\* the catalog and the media directory before the first request
ManagedSongs ==
    [s \in ManagedSongIds |->
        IF s = 1 THEN StoredSong(1, "a1", "c1")
        ELSE IF s = 2 THEN StoredSong(2, "a2", "")
        ELSE DoesNotExist]
ManagedFiles == {"a1", "c1", "a2"}

\* the body of a PUT: which keys it carries and what they hold
NoBody ==
    [json |-> TRUE, title |-> FALSE, lyrics |-> FALSE, release_date |-> "absent",
     genre_id |-> "absent", audio_file |-> "absent", cover_image |-> FALSE]
JsonBodies ==
    [json : {TRUE}, title : BOOLEAN, lyrics : BOOLEAN,
     release_date : {"absent", "empty", "value"},
     genre_id : {"absent", "empty", "valid", "invalid"},
     audio_file : {"absent"}, cover_image : {FALSE}]
FormBodies ==
    [json : {FALSE}, title : BOOLEAN, lyrics : {FALSE},
     release_date : {"absent"}, genre_id : {"absent", "invalid"},
     audio_file : {"absent", "valid", "invalid"}, cover_image : BOOLEAN]
PutBodies == JsonBodies \cup FormBodies

Requests ==
    [user : Requesters, method : Methods \ {"PUT"}, song_id : ManagedSongIds,
     body : {NoBody}]
    \cup [user : Requesters, method : {"PUT"}, song_id : ManagedSongIds,
          body : PutBodies]

\* what a request leaves behind and answers: shown is the song whose data
\* the JSON answer carries
Answer(catalog, files, status, shown) ==
    [songs |-> catalog, files |-> files, status |-> status, shown |-> shown]

\* a lookup by id alone
GetAnySong(catalog, song_id, artist) == catalog[song_id]

\* Song.objects.get(id=song_id, artist=artist): the record, or DoesNotExist
GetOwnedSong(catalog, song_id, artist) ==
    IF catalog[song_id].exists /\ catalog[song_id].artist = artist
    THEN catalog[song_id] ELSE DoesNotExist

\* os.remove(path) when the song has a file and the path exists
RemoveFile(files, name) == IF name # "" THEN files \ {name} ELSE files

\* the GET branch
ManageGet(catalog, files, song) == Answer(catalog, files, 200, song)

\* the text fields and the genre of a PUT assigned to the song object in
\* memory
TextFields(song, body) ==
    [song EXCEPT
        !.title = IF body.title THEN "new" ELSE @,
        !.lyrics = IF body.lyrics THEN "new" ELSE @,
        !.release_date = CASE body.release_date = "value" -> "new"
                           [] body.release_date = "empty" -> ""
                           [] OTHER -> @,
        !.genre = CASE body.genre_id = "valid" -> 1
                    [] body.genre_id = "empty" -> 0
                    [] OTHER -> @]

\* the answer of a PUT after song.save(): .isoformat() is called on the
\* release_date string the request has assigned
PutAnswer(catalog, files, song, body) ==
    IF body.release_date = "value" THEN Answer(catalog, files, 500, DoesNotExist)
    ELSE Answer(catalog, files, 200, song)

\* a PUT branch that saves the text fields as soon as they are assigned
ManagePutSavedEarly(catalog, files, song_id, body) ==
    LET song == TextFields(catalog[song_id], body)
        saved == [catalog EXCEPT ![song_id] = song]
    IN  IF body.genre_id = "invalid" \/ body.audio_file = "invalid"
        THEN Answer(saved, files, 400, DoesNotExist)
        ELSE PutAnswer(saved, files, song, body)

\* the PUT branch
ManagePut(catalog, files, song_id, body) ==
    LET song == TextFields(catalog[song_id], body)
    IN  IF body.genre_id = "invalid" THEN Answer(catalog, files, 400, DoesNotExist)
        ELSE IF body.json
        THEN PutAnswer([catalog EXCEPT ![song_id] = song], files, song, body)
        ELSE IF body.audio_file = "invalid"
        THEN Answer(catalog, files, 400, DoesNotExist)
        ELSE LET audio == IF body.audio_file = "valid"
                          THEN [song EXCEPT !.audio_file = UploadName[song_id],
                                            !.duration = 2]
                          ELSE song
                 noAudio == IF body.audio_file = "valid"
                            THEN RemoveFile(files, song.audio_file) ELSE files
                 cover == IF body.cover_image
                          THEN [audio EXCEPT !.cover_image = CoverName[song_id]]
                          ELSE audio
                 noCover == IF body.cover_image
                            THEN RemoveFile(noAudio, song.cover_image) ELSE noAudio
             IN  PutAnswer([catalog EXCEPT ![song_id] = cover],
                           noCover \cup ({cover.audio_file, cover.cover_image} \ {""}),
                           cover, body)

\* the DELETE branch
ManageDelete(catalog, files, song_id) ==
    Answer([catalog EXCEPT ![song_id] = DoesNotExist],
           RemoveFile(RemoveFile(files, catalog[song_id].audio_file),
                      catalog[song_id].cover_image),
           200, DoesNotExist)

\* manage_song(request, song_id) with its decorators
ManageSongAnswer(catalog, files, request) ==
    LET song == GetOwnedSong(catalog, request.song_id, request.user.profile)
    IN  IF request.method \notin AllowedMethods
        THEN Answer(catalog, files, 405, DoesNotExist)
        ELSE IF ~request.user.auth THEN Answer(catalog, files, 302, DoesNotExist)
        ELSE IF request.user.role # "artist"
        THEN Answer(catalog, files, 403, DoesNotExist)
        ELSE IF request.user.profile = 0 THEN Answer(catalog, files, 404, DoesNotExist)
        ELSE IF ~song.exists THEN Answer(catalog, files, 404, DoesNotExist)
        ELSE IF request.method = "GET" THEN ManageGet(catalog, files, song)
        ELSE IF request.method = "PUT"
        THEN ManagePut(catalog, files, request.song_id, request.body)
        ELSE ManageDelete(catalog, files, request.song_id)

\* no request is being answered
NoRequest ==
    [user |-> [auth |-> FALSE, role |-> "none", profile |-> 0],
     method |-> "GET", song_id |-> 1, body |-> NoBody]
Waiting(catalog, files) ==
    [songs |-> catalog, files |-> files, status |-> 0, shown |-> DoesNotExist,
     request |-> NoRequest, before |-> [songs |-> catalog, files |-> files]]

InitManage ==
    /\ RestIdle
    /\ fs = [path \in {LoaderPath, SetupPath} |-> NoFile]
    /\ service = NoService
    /\ streaming = <<>> /\ top = <<>> /\ batch = <<>>
    /\ managed = Waiting(ManagedSongs, ManagedFiles)

\* one request to manage_song is answered
ManageSong(request) ==
    /\ managed.status = 0
    /\ LET a == ManageSongAnswer(managed.songs, managed.files, request)
       IN  managed' = [songs |-> a.songs, files |-> a.files, status |-> a.status,
                       shown |-> a.shown, request |-> request,
                       before |-> [songs |-> managed.songs, files |-> managed.files]]
    /\ UNCHANGED <<core, fs, service, streaming, top, batch>>

\* the answer is delivered; the catalog and the files stay as they are
ManageDone ==
    /\ managed.status # 0
    /\ managed' = Waiting(managed.songs, managed.files)
    /\ UNCHANGED <<core, fs, service, streaming, top, batch>>

NextManage ==
    \/ \E request \in Requests : ManageSong(request)
    \/ ManageDone

SpecManage == InitManage /\ [][NextManage]_vars

(***************************************************************************)
(* Batch commands: songs/sync_spotify_dat.py, batch_update_lyrics          *)
(***************************************************************************)

\* the attributes of an Artist (artists/models.py 38-83)
ArtistAttributes ==
    {"id", "user", "artist_name", "bio", "profile_image", "email", "website",
     "instagram", "twitter", "facebook", "monthly_listeners", "total_streams",
     "is_verified", "verification_date", "created_at", "updated_at"}

\* reading song.artist.<name>
ArtistAttr(name) ==
    IF name \in ArtistAttributes THEN JStr("A") ELSE Exc("AttributeError")

\* a first track whose external_urls is not a mapping
OddUrlsTrack ==
    JDict([k \in {"id", "name", "external_urls"} |->
        CASE k = "id" -> JStr("id4")
          [] k = "name" -> JStr("n4")
          [] k = "external_urls" -> JNum(3)])

\* what service._get_spotify_track_info(song) returns to the sync command:
\* None without a token, else the result of the search
SyncInfos ==
    {PyNone}
    \cup {SearchResult("track", response) : response \in
            {TransportError("Timeout"), HttpResp(200, GoodBody),
             HttpResp(200, BodyOf(JDict([k \in {"items"} |-> JList(<<OddUrlsTrack>>)])))}}

\* the songs of the batch: missing from the catalog, with lyrics, or with
\* blank lyrics
SongKinds == {"missing", "lyrics", "blank"}

NewBatch(cmd, kinds, genius_api_key) ==
    [cmd |-> cmd, kinds |-> kinds, genius_api_key |-> genius_api_key,
     pc |-> "loop", at |-> 0,
     updated_count |-> 0, failed_count |-> 0,
     updated |-> 0, failed |-> 0, already_had_lyrics |-> 0,
     saved |-> {}, asUpdated |-> {}, asFailed |-> {}, called |-> {}]

\* a progress line that reads the attribute the Artist model defines
ProgressLineNamed(b) == ArtistAttr("artist_name")

\* the progress line of the sync command: f'... {song.title} - {song.artist.name}'
ProgressLine(b) == ArtistAttr("name")

\* one turn of the loop of Command.handle (sync_spotify_dat.py 43-63) on the
\* song at place at + 1; saved, asUpdated and asFailed are history
SyncOne(b, spotify_info) ==
    LET i == b.at + 1
        except == [b EXCEPT !.at = i, !.failed_count = @ + 1, !.asFailed = @ \cup {i}]
    IN  IF Truthy(spotify_info)
        THEN IF ~IsDict(DictGet(spotify_info, "external_urls", EmptyDict))
             THEN except
             ELSE LET counted == [b EXCEPT !.at = i, !.saved = @ \cup {i},
                                           !.updated_count = @ + 1,
                                           !.asUpdated = @ \cup {i}]
                  IN  IF IsExc(ProgressLine(b))
                      THEN [counted EXCEPT !.failed_count = @ + 1,
                                           !.asFailed = @ \cup {i}]
                      ELSE counted
        ELSE LET counted == [b EXCEPT !.at = i, !.failed_count = @ + 1,
                                      !.asFailed = @ \cup {i}]
             IN  IF IsExc(ProgressLine(b))
                 THEN [counted EXCEPT !.failed_count = @ + 1]
                 ELSE counted

\* one turn of the loop of batch_update_lyrics (lyrics.py 460-480);
\* lyrics_data is what _get_external_lyrics returns
UpdateOne(b, lyrics_data) ==
    LET i == b.at + 1
    IN  CASE b.kinds[i] = "missing" ->
                [b EXCEPT !.at = i, !.failed = @ + 1]
          [] b.kinds[i] = "lyrics" ->
                [b EXCEPT !.at = i, !.already_had_lyrics = @ + 1]
          [] OTHER ->
                IF Truthy(lyrics_data)
                THEN [b EXCEPT !.at = i, !.updated = @ + 1, !.saved = @ \cup {i},
                               !.called = IF b.genius_api_key THEN @ \cup {i} ELSE @]
                ELSE [b EXCEPT !.at = i, !.failed = @ + 1,
                               !.called = IF b.genius_api_key THEN @ \cup {i} ELSE @]

InitCommands ==
    /\ RestIdle
    /\ fs = [path \in {LoaderPath, SetupPath} |-> NoFile]
    /\ service = NoService
    /\ streaming = <<>> /\ top = <<>> /\ managed = <<>>
    /\ \E cmd \in {"sync", "lyrics"}, n \in 0..MaxSongs, key \in BOOLEAN :
          \E kinds \in [1..n -> IF cmd = "sync" THEN {"blank"} ELSE SongKinds] :
              /\ cmd = "sync" => n > 0 /\ ~key
              /\ batch = NewBatch(cmd, kinds, key)

\* Command.handle: the next song of the sync command
SyncSong ==
    /\ batch.cmd = "sync" /\ batch.pc = "loop" /\ batch.at < Len(batch.kinds)
    /\ \E spotify_info \in SyncInfos : batch' = SyncOne(batch, spotify_info)
    /\ UNCHANGED <<core, fs, service, streaming, top, managed>>

\* batch_update_lyrics: the next song id
UpdateSong ==
    /\ batch.cmd = "lyrics" /\ batch.pc = "loop" /\ batch.at < Len(batch.kinds)
    /\ \E response \in GeniusResponses :
          batch' = UpdateOne(batch, IF batch.genius_api_key
                                    THEN GeniusLyrics(response) ELSE PyNone)
    /\ UNCHANGED <<core, fs, service, streaming, top, managed>>

\* the loop is over: the command prints its counts, the function returns
CommandReturn ==
    /\ batch.pc = "loop" /\ batch.at = Len(batch.kinds)
    /\ batch' = [batch EXCEPT !.pc = "done"]
    /\ UNCHANGED <<core, fs, service, streaming, top, managed>>

\* the same batch is run again
CommandAgain ==
    /\ batch.pc = "done"
    /\ batch' = NewBatch(batch.cmd, batch.kinds, batch.genius_api_key)
    /\ UNCHANGED <<core, fs, service, streaming, top, managed>>

NextCommands == SyncSong \/ UpdateSong \/ CommandReturn \/ CommandAgain

SpecCommands == InitCommands /\ [][NextCommands]_vars

-----------------------------------------------------------------------------
(* Properties of the lyrics resolver (Spec, SpecRace) *)

\* stored lyrics that are not blank
NonBlank(lyrics) == lyrics \in {LaLaLa, LoLoLo}

\* worker p has a get_lyrics call that has returned
GetLyricsDone(p) == req[p].pc = "done" /\ req[p].op \in LyricsOps

\* the result of worker p is the database result carrying the lyrics the
\* call read from the catalog record
IsDatabaseResult(p) ==
    /\ req[p].res.d["source"] = JStr("database")
    /\ req[p].res.d["has_lyrics"] = JBool(TRUE)
    /\ req[p].res.d["lyrics"] = req[p].lyr

\* C1 as stated: whenever the catalog record holds non-blank lyrics at the
\* time of a get_lyrics call, the call returns source = database,
\* has_lyrics = true and the stored lyrics, and contacts no external service,
\* whatever get_lyrics, refresh and catalog-update operations came before.
C1_DatabaseAlwaysWins ==
    \A p \in Procs :
        GetLyricsDone(p) /\ NonBlank(req[p].lyr) =>
            IsDatabaseResult(p) /\ req[p].calls = <<>>

\* C1 amended: a get_lyrics call that reads non-blank lyrics from the catalog
\* record never contacts an external service, and when its cache lookup
\* misses it returns source = database, has_lyrics = true and the stored
\* lyrics (a cache hit returns the cached result, which may predate the
\* lyrics).
C1_DatabaseOnMiss ==
    \A p \in Procs :
        req[p].op \in LyricsOps /\ NonBlank(req[p].lyr) =>
            /\ req[p].calls = <<>>
            /\ GetLyricsDone(p) /\ req[p].live => IsDatabaseResult(p)

\* C1: a call that found non-blank lyrics missed the cache and answered from
\* the catalog, after an earlier call for the song had answered otherwise
C1_Witness ==
    \E p \in Procs :
        /\ GetLyricsDone(p) /\ NonBlank(req[p].lyr) /\ req[p].live
        /\ IsDatabaseResult(p)
        /\ lastCall[req[p].song].present
        /\ lastCall[req[p].song].value # req[p].res

\* worker p has a plain get_lyrics call (not part of a refresh) that has
\* returned for a song that exists
PlainDone(p) ==
    req[p].pc = "done" /\ req[p].op = "lyrics" /\ songs[req[p].song].exists

\* C2 as stated: of two get_lyrics calls for a song made less than 24 hours
\* apart with no refresh in between, the second returns the result of the
\* first and makes no external call.
C2_TwoCallsWithinADay ==
    \A p \in Procs :
        PlainDone(p) /\ lastCall[req[p].song].present
        /\ req[p].t0 - lastCall[req[p].song].at < 86400 =>
            req[p].res = lastCall[req[p].song].value /\ req[p].calls = <<>>

\* C2 amended: a get_lyrics call made less than 24 hours after the cache
\* entry of the song was written is served from that entry, returns what the
\* previous call for the song returned and makes no external call; a call
\* made 24 hours or more after the entry was written misses and runs the
\* fallback chain again.  (The 24 hours count from the write of the entry,
\* not from the previous call.)
C2_WithinADayOfTheWrite ==
    \A p \in Procs :
        LET r == req[p]
            e == lyricsCache[r.song]
        IN  /\ PlainDone(p) /\ ~r.live =>
                /\ e.present /\ r.t0 - e.set_at < 86400
                /\ r.res = e.value /\ r.calls = <<>>
                /\ lastCall[r.song].present => r.res = lastCall[r.song].value
            /\ r.op = "lyrics" /\ r.live /\ r.pc \notin {"done", "idle"} =>
                ~(e.present /\ r.t0 - e.set_at < 86400)
            /\ PlainDone(p) /\ r.live /\ ~IsExc(r.res) => e.present /\ e.set_at = r.t0

\* C2: a call served from an entry written 86399 seconds before it
C2_Witness ==
    \E p \in Procs :
        /\ PlainDone(p) /\ ~req[p].live
        /\ req[p].t0 - lyricsCache[req[p].song].set_at = 86399
        /\ lastCall[req[p].song].present
        /\ req[p].res = lastCall[req[p].song].value

\* C3 as stated: refresh_lyrics_cache returns the result of a live run of the
\* fallback chain started after the eviction, never a cached value, also when
\* another worker calls get_lyrics for the same song between the delete and
\* the re-resolution.
C3_RefreshIsLive ==
    \A p \in Procs :
        req[p].pc = "done" /\ req[p].op = "refresh" /\ songs[req[p].song].exists =>
            req[p].live

-----------------------------------------------------------------------------
(* Properties of the token cache (SpecEnrich) *)

\* worker p takes the step that looks the access token up
TokenStep(p) == req[p].pc \in {"token", "token2"} /\ req'[p] # req[p]

\* worker p takes the step that exchanges the credentials for a token
ExchangeStep(p) == req[p].pc \in {"exchange", "exchange2"} /\ req'[p] # req[p]

\* the token request goes on with the cached token and without an exchange
ServedFromCache(p) ==
    /\ req'[p].tok = CacheGet(tokenCache, now)
    /\ req'[p].pc \in {"search", "features"}
    /\ req'[p].calls = req[p].calls

\* C4 as stated: get_access_token returns the cached token whenever one is
\* present and unexpired, without an exchange, whether or not credentials are
\* available (the cache check comes before the credentials check).
C4_CachedTokenAlways ==
    [][\A p \in Procs :
          TokenStep(p) /\ Truthy(CacheGet(tokenCache, now)) => ServedFromCache(p)]_vars

\* C4 amended: an instance that loaded credentials returns the cached token
\* whenever one is present and unexpired, without an exchange; an instance
\* without credentials returns None without consulting the cache (the
\* credentials check comes first).
C4_CachedTokenWithCredentials ==
    [][\A p \in Procs :
          TokenStep(p) =>
            /\ req[p].creds /\ Truthy(CacheGet(tokenCache, now)) => ServedFromCache(p)
            /\ ~req[p].creds =>
                /\ req'[p].tok = PyNone
                /\ req'[p].calls = req[p].calls
                /\ req'[p].pc = "done" /\ req'[p].res = PyNone]_vars

\* C4: a request has just been handed the cached token, no exchange made
C4_Witness ==
    \E p \in Procs :
        /\ req[p].pc = "search" /\ req[p].creds /\ req[p].calls = <<>>
        /\ Truthy(req[p].tok) /\ req[p].tok = CacheGet(tokenCache, now)

\* the seconds the latest grant stays in the cache: expires_in (3600 when the
\* response carried none) less the 60 seconds of margin
GrantLifetime ==
    (IF grant.expires_in = Absent THEN 3600 ELSE grant.expires_in.n) - 60

\* the clock is within the lifetime of the latest grant
InWindow == grant.present /\ now < grant.at + GrantLifetime

\* the cache holds the latest grant while its lifetime lasts and no token
\* after it
GrantInCache ==
    grant.present =>
        /\ InWindow => CacheGet(tokenCache, now) = grant.token
        /\ ~InWindow => ~Truthy(CacheGet(tokenCache, now))

\* a token lookup by an instance with credentials is served the latest grant
\* while its lifetime lasts and goes to the exchange after it
GrantServed ==
    \A p \in Procs :
        TokenStep(p) /\ req[p].creds /\ grant.present =>
            /\ InWindow =>
                /\ req'[p].tok = grant.token
                /\ req'[p].pc \in {"search", "features"}
                /\ req'[p].calls = req[p].calls
            /\ ~InWindow => req'[p].pc \in {"exchange", "exchange2"}

\* C5: after a successful exchange at time t whose response carried
\* expires_in = E (3600 when absent), the token is served from the cache at
\* every time in [t, t + E - 60) and is absent from t + E - 60 on, where the
\* next get_access_token call of an instance with credentials makes a new
\* exchange; for E = 3600 that is 3540 seconds.
C5_TokenLifetime == []GrantInCache /\ [][GrantServed]_vars

\* C5: a token granted without expires_in is served from the cache 3539
\* seconds after the exchange
C5_Witness ==
    \E p \in Procs :
        /\ grant.present /\ grant.expires_in = Absent
        /\ now = grant.at + 3539
        /\ req[p].pc = "search" /\ req[p].calls = <<>>
        /\ req[p].tok = grant.token

\* the token response was a transport error, a timeout or a non-200 status
FailedStatus(xs) == xs.st # "none" /\ (xs.st # "http" \/ xs.code # 200)

\* C6: when the token endpoint answers with a non-200 status, or the request
\* fails with a transport error or timeout, get_access_token returns None,
\* raises nothing, and leaves the token cache entry as it was.
C6_FailedExchange ==
    [][\A p \in Procs :
          ExchangeStep(p) /\ FailedStatus(req'[p].xs) =>
            /\ req'[p].tok = PyNone
            /\ ~IsExc(req'[p].res)
            /\ tokenCache' = tokenCache]_vars

\* C6: an exchange timed out while the cache held an (expired) entry, and the
\* enrichment operation ended with None
C6_Witness ==
    \E p \in Procs :
        /\ req[p].pc = "done" /\ req[p].xs.st = "Timeout"
        /\ req[p].tok = PyNone /\ req[p].res = PyNone
        /\ tokenCache.present /\ Truthy(tokenCache.value)

\* C7: while the credentials are unavailable (resource absent, unreadable, or
\* missing either key), every enrichment operation is constructed without
\* failing, makes no HTTP request and returns None without raising.
C7_NoCredentials ==
    \A p \in Procs :
        req[p].op \in EnrichOps /\ credFile # "ok" =>
            /\ req[p].calls = <<>>
            /\ req[p].pc \in {"token", "done"}
            /\ req[p].pc = "done" => req[p].res = PyNone

\* C7: comprehensive data was asked for with client_id missing while the
\* cache held a valid token: the answer is None, no request made
C7_Witness ==
    \E p \in Procs :
        /\ req[p].pc = "done" /\ req[p].op = "comprehensive"
        /\ credFile = "only_secret"
        /\ Truthy(CacheGet(tokenCache, now))
        /\ req[p].res = PyNone /\ req[p].calls = <<>>

-----------------------------------------------------------------------------
(* Properties of the metadata client (SpecParse) *)

\* the response is a 200 whose body holds, under the key of the kind, a
\* mapping whose "items" is a non-empty list with a mapping first
HasMappingFirst(kind) ==
    /\ resp.st = "http" /\ resp.code = 200
    /\ IsDict(resp.body) /\ (kind \o "s") \in DOMAIN resp.body.d
    /\ IsDict(resp.body.d[kind \o "s"])
    /\ "items" \in DOMAIN resp.body.d[kind \o "s"].d
    /\ resp.body.d[kind \o "s"].d["items"].t = "list"
    /\ Len(resp.body.d[kind \o "s"].d["items"].l) > 0
    /\ IsDict(resp.body.d[kind \o "s"].d["items"].l[1])

\* that first item
FirstOf(kind) == resp.body.d[kind \o "s"].d["items"].l[1]

\* C8: for every response of the metadata service, search_track,
\* search_album and search_artist return None or a structure and never
\* raise; a non-200 status and an unparsable body give None.
C8_SearchNeverRaises ==
    \A kind \in Kinds :
        out[kind] # Pending =>
            /\ ~IsExc(out[kind])
            /\ out[kind] = PyNone \/ IsDict(out[kind])
            /\ resp.st # "http" => out[kind] = PyNone
            /\ resp.st = "http" /\ resp.code # 200 => out[kind] = PyNone
            /\ resp.st = "http" /\ resp.body = NotJson => out[kind] = PyNone

\* C8: a 200 response whose "items" is a number (len() raises) gave None
C8_Witness ==
    \E kind \in Kinds :
        /\ out[kind] = PyNone
        /\ resp = HttpResp(200, BodyOf(JDict([k \in {"items"} |-> JNum(3)])))

\* C9 as stated: when the first item of the result list is a mapping, a
\* wrongly-typed value in it (artists that is null or a number, not a list)
\* is replaced by the safe default of its field (artists: the empty list),
\* the well-formed fields keep their values and the result is not discarded.
C9_PerFieldDefault ==
    \A kind \in {"track", "album"} :
        out[kind] # Pending /\ HasMappingFirst(kind) =>
            /\ IsDict(out[kind])
            /\ out[kind].d["name"] = DictGet(FirstOf(kind), "name", JStr(""))
            /\ DictGet(FirstOf(kind), "artists", EmptyList).t # "list" =>
                    out[kind].d["artists"] = EmptyList

\* C10: a 200 response whose single track holds only id and name gives a
\* structure with that id and name, no artists, and the defaults for album,
\* preview_url, external_urls, duration_ms and popularity.
C10_OnlyIdAndName ==
    out["track"] # Pending /\ HasMappingFirst("track")
    /\ Len(resp.body.d["tracks"].d["items"].l) = 1
    /\ DOMAIN FirstOf("track").d = {"id", "name"} =>
        /\ IsDict(out["track"])
        /\ DOMAIN out["track"].d =
             {"spotify_id", "name", "artists", "album", "preview_url",
              "external_urls", "duration_ms", "popularity"}
        /\ out["track"].d["spotify_id"] = FirstOf("track").d["id"]
        /\ out["track"].d["name"] = FirstOf("track").d["name"]
        /\ out["track"].d["artists"] = JList(<<>>)
        /\ out["track"].d["album"] = JStr("")
        /\ out["track"].d["preview_url"] = JNull
        /\ out["track"].d["external_urls"] = JDict(<<>>)
        /\ out["track"].d["duration_ms"] = JNull
        /\ out["track"].d["popularity"] = JNull

\* C10: the track {"id": "id1", "name": "n1"} has been searched
C10_Witness ==
    /\ out["track"] # Pending /\ HasMappingFirst("track")
    /\ FirstOf("track") =
         JDict([k \in {"id", "name"} |-> IF k = "id" THEN JStr("id1") ELSE JStr("n1")])
    /\ out["track"].d["spotify_id"] = JStr("id1")

\* the response is a 200 whose body holds, under the key of the kind, a
\* mapping whose "items" is a list
HasItemList(kind) ==
    /\ resp.st = "http" /\ resp.code = 200
    /\ IsDict(resp.body) /\ (kind \o "s") \in DOMAIN resp.body.d
    /\ IsDict(resp.body.d[kind \o "s"])
    /\ "items" \in DOMAIN resp.body.d[kind \o "s"].d
    /\ resp.body.d[kind \o "s"].d["items"].t = "list"

\* that list
ItemsOf(kind) == resp.body.d[kind \o "s"].d["items"].l

\* the response whose result list holds the first item of resp and no other
FirstOnly(kind) ==
    HttpResp(200, BodyOf(JDict([k \in {"items"} |-> JList(<<ItemsOf(kind)[1]>>)])))

\* C11: each search operation returns None when the result list of a 200
\* response is empty, and otherwise builds its result from the first item of
\* the list only: the result is the one the list cut down to its first item
\* gives, it is None when the first item is not a mapping whatever follows,
\* and a structure carries the id and name of the first item.
C11_FirstItemOnly ==
    \A kind \in Kinds :
        out[kind] # Pending /\ HasItemList(kind) =>
            /\ ItemsOf(kind) = <<>> => out[kind] = PyNone
            /\ ItemsOf(kind) # <<>> =>
                /\ out[kind] = SearchResult(kind, FirstOnly(kind))
                /\ ~IsDict(ItemsOf(kind)[1]) => out[kind] = PyNone
                /\ IsDict(out[kind]) =>
                    /\ IsDict(ItemsOf(kind)[1])
                    /\ out[kind].d["spotify_id"] = DictGet(ItemsOf(kind)[1], "id", JStr(""))
                    /\ out[kind].d["name"] = DictGet(ItemsOf(kind)[1], "name", JStr(""))

\* C11: a list of three items, the last of them the well-formed one, gave the
\* three searches the result of its first item
C11_Witness ==
    /\ HasItemList("track")
    /\ ItemsOf("track") = <<OtherItem, JNull, GoodItem>>
    /\ \A kind \in Kinds :
          /\ IsDict(out[kind])
          /\ out[kind].d["spotify_id"] = JStr("id2")

-----------------------------------------------------------------------------
(* Properties of the comprehensive data operation (SpecEnrich) *)

\* worker p, in _get_comprehensive_spotify_data with the track info in hand,
\* takes a step
FeaturesPhaseStep(p) ==
    /\ req[p].op = "comprehensive"
    /\ req[p].pc \in {"token2", "exchange2", "features"}
    /\ req'[p] # req[p]

\* the audio-features response was a 200 with a mapping for body
FeaturesFound(p) ==
    /\ req[p].pc = "features"
    /\ req'[p].ds.st = "http" /\ req'[p].ds.code = 200 /\ req'[p].ds.mapping

\* C12: whenever the track search succeeded, _get_comprehensive_spotify_data
\* returns the track info and never None: unchanged and without
\* audio_features on a 404, another non-200 status, an unparsable or
\* non-mapping body, a timeout, a transport error or an unobtainable token;
\* with audio_features added only on a 200 response whose body is a mapping.
C12_TrackInfoSurvives ==
    [][\A p \in Procs :
          FeaturesPhaseStep(p) =>
            /\ Truthy(req[p].info)
            /\ req'[p].pc = "done" =>
                /\ IsDict(req'[p].res)
                /\ ~FeaturesFound(p) => req'[p].res = req[p].info
                /\ FeaturesFound(p) =>
                    /\ DOMAIN req'[p].res.d = DOMAIN req[p].info.d \cup {"audio_features"}
                    /\ \A k \in DOMAIN req[p].info.d : req'[p].res.d[k] = req[p].info.d[k]
                    /\ IsDict(req'[p].res.d["audio_features"])
            /\ req'[p].pc # "done" => req'[p].info = req[p].info]_vars

\* C12: the audio-features request was answered 404 and the operation
\* returned the track info without audio_features
C12_Witness ==
    \E p \in Procs :
        /\ req[p].pc = "done" /\ req[p].op = "comprehensive"
        /\ req[p].ds.st = "http" /\ req[p].ds.code = 404
        /\ IsDict(req[p].res)
        /\ "audio_features" \notin DOMAIN req[p].res.d
        /\ req[p].res.d["spotify_id"] = JStr("id1")

-----------------------------------------------------------------------------
(* C13: batch enrichment isolates failures per record *)

\* the enrichment call of a record failed: it returned no usable dict
EnrichmentFailed(value) == IsExc(value) \/ ~IsDict(value) \/ ~Truthy(value)

\* entry i of a listing carries the enrichment that the call made for
\* record i produced, and None when that call failed
EntryOfItsOwnCall(r, i) ==
    /\ r.data[i].id = r.todo[i]
    /\ r.data[i].spotify_data = PyNone <=> EnrichmentFailed(r.raw[i])
    /\ ~EnrichmentFailed(r.raw[i]) =>
          IF r.view = "albums" THEN r.data[i].spotify_data = r.raw[i]
          ELSE /\ IsDict(r.data[i].spotify_data)
               /\ \A k \in {"spotify_id", "preview_url", "popularity", "duration_ms"} :
                     r.data[i].spotify_data.d[k] = r.raw[i].d[k]
               /\ r.data[i].spotify_data.d["audio_features"] =
                     DictGet(r.raw[i], "audio_features", EmptyDict)

\* C13: a listing of N catalog records answers 200 with exactly N entries in
\* catalog order; an entry is None exactly when the enrichment call of its
\* own record failed, every other entry keeps what its own call produced,
\* and a failure never ends the listing early.
C13_BatchIsolation ==
    \A p \in Procs :
        LET r == req[p]
        IN  r.view # "none" /\ r.status # 404 =>
              /\ Len(r.data) = Len(r.raw)
              /\ Len(r.data) <= Len(r.todo)
              /\ \A i \in 1..Len(r.data) : EntryOfItsOwnCall(r, i)
              /\ r.pc = "done" => r.status = 200 /\ Len(r.data) = Len(r.todo)
              /\ r.pc # "done" => r.status = 0

\* a listing of three albums is answered although the call of the second
\* failed; the first and the third keep their enrichment
C13_Witness ==
    \E p \in Procs :
        /\ req[p].view = "albums" /\ req[p].pc = "done" /\ req[p].status = 200
        /\ Len(req[p].data) = 3
        /\ req[p].raw[2] = PyNone /\ req[p].data[2].spotify_data = PyNone
        /\ IsDict(req[p].data[1].spotify_data)
        /\ IsDict(req[p].data[3].spotify_data)

-----------------------------------------------------------------------------
(* C14: a song id missing from the catalog on the song-detail route *)

\* the request names a song id that the catalog does not hold
AsksMissingSong(r) ==
    /\ r.view = "songs" /\ r.arg # PyNone
    /\ ~(r.arg.n \in SongIds /\ songs[r.arg.n].exists)

\* C14: for every song id the detail route accepts (0 included) that is not
\* in the catalog, the view answers 404 with an error body, returns no song
\* entry and makes no enrichment call.
C14_MissingSongIs404 ==
    \A p \in Procs :
        AsksMissingSong(req[p]) =>
            /\ req[p].pc = "done" /\ req[p].status = 404
            /\ IsDict(req[p].res) /\ "error" \in DOMAIN req[p].res.d
            /\ req[p].data = <<>> /\ req[p].calls = <<>>

-----------------------------------------------------------------------------
(* C15: a lyrics request for a song id missing from the catalog *)

\* C15: a lyrics request (get or refresh) for a song id that is not in the
\* catalog is answered with a 404-equivalent, non-2xx status.
C15_MissingSongNot2xx ==
    \A p \in Procs :
        GetLyricsDone(p) /\ ~songs[req[p].song].exists =>
            req[p].status \in 400..499

-----------------------------------------------------------------------------
(* C16: the order of the lyrics fallback chain *)

\* the places of the call what in the calls of a request
Places(r, what) == {i \in 1..Len(r.calls) : r.calls[i] = what}

\* the metadata service was contacted: token exchange or search
MetadataCalls(r) == Places(r, "token") \cup Places(r, "search")

\* C16: in a run of the chain the database comes first, then the metadata
\* service, then the secondary provider: an external call is made only after
\* the database check found blank lyrics, the secondary provider is contacted
\* only with a key configured, only once the metadata step is over, and
\* nothing follows it; a run that finds stored lyrics contacts nobody.
C16_ChainOrder ==
    \A p \in Procs :
        LET r == req[p]
        IN  r.op \in LyricsOps =>
              /\ r.calls # <<>> => r.live /\ ~HasLyrics(r.lyr)
              /\ r.pc \in {"token", "exchange", "search", "genius"} =>
                    r.live /\ ~HasLyrics(r.lyr)
              /\ r.pc = "genius" \/ Places(r, "genius") # {} => geniusKey
              /\ \A i \in MetadataCalls(r), j \in Places(r, "genius") : i < j
              /\ \A i \in Places(r, "token"), j \in Places(r, "search") : i < j
              /\ Places(r, "genius") # {} =>
                    r.pc \in {"set", "done"} /\ Places(r, "genius") = {Len(r.calls)}
              /\ r.pc \in {"set", "done"} /\ r.live /\ HasLyrics(r.lyr) =>
                    r.calls = <<>> /\ IsDatabaseResult(p)

\* a run that went through the three steps in order
C16_Witness ==
    \E p \in Procs :
        /\ req[p].op = "lyrics" /\ req[p].pc = "done"
        /\ req[p].calls = <<"token", "search", "genius">>
        /\ req[p].res = NotAvailableResult

-----------------------------------------------------------------------------
(* C17: the metadata step and the secondary provider yield no lyrics *)

\* the result of a finished run names the database or no source
SourceDatabaseOrNone ==
    \A p \in Procs :
        GetLyricsDone(p) /\ ~IsExc(req[p].res) =>
            req[p].res.d["source"] \in {JStr("database"), PyNone}

\* a step of a lyrics run leaves the catalog as it is
RunKeepsCatalog == (req' # req) => (songs' = songs)

-----------------------------------------------------------------------------
(* C18: every result of get_lyrics is well-formed *)

\* the fields of a lyrics result agree with each other
WellFormed(result, in_catalog) ==
    LET d == result.d
    IN  /\ {"success", "lyrics", "source", "has_lyrics"} \subseteq DOMAIN d
        /\ d["success"] \in {JBool(TRUE), JBool(FALSE)}
        /\ d["has_lyrics"] \in {JBool(TRUE), JBool(FALSE)}
        /\ d["has_lyrics"] = JBool(TRUE) <=> d["lyrics"] # PyNone
        /\ d["has_lyrics"] = JBool(TRUE) <=> d["source"] # PyNone
        /\ d["success"] = JBool(FALSE) => ~in_catalog
        /\ in_catalog /\ d["has_lyrics"] = JBool(FALSE) =>
              d["success"] = JBool(TRUE) /\ d["lyrics"] = PyNone /\ d["source"] = PyNone

\* C18: every result get_lyrics returns, fresh or from the cache, is
\* well-formed: has_lyrics is true exactly when lyrics is non-null and exactly
\* when source is non-null; with no lyrics found it has success true,
\* has_lyrics false, lyrics None and source None; success is false only for a
\* song that is not in the catalog.
C18_WellFormedResult ==
    \A p \in Procs :
        GetLyricsDone(p) /\ ~IsExc(req[p].res) =>
            /\ IsDict(req[p].res)
            /\ WellFormed(req[p].res, songs[req[p].song].exists)

\* a fresh run over stored lyrics that are only blanks has returned the
\* not-available result
C18_Witness ==
    \E p \in Procs :
        /\ GetLyricsDone(p) /\ req[p].live
        /\ req[p].lyr = Blank
        /\ req[p].res = NotAvailableResult

-----------------------------------------------------------------------------
(* C19: the cached token leaves the cache only by expiry *)

\* worker p takes the step that handles the response of its search or
\* audio-features request
ResponseStep(p) == req[p].pc \in {"search", "features"} /\ req'[p] # req[p]

\* a token whose request was refused is still the one the cache returns
RefusedTokenKept ==
    grant.present /\ grant.refused /\ InWindow =>
        CacheGet(tokenCache, now) = grant.token

\* handling a response leaves the cache entry as it is, and the next token
\* lookup within the window gets the same token without an exchange
RefusedTokenServed ==
    \A p \in Procs :
        /\ ResponseStep(p) => tokenCache' = tokenCache
        /\ TokenStep(p) /\ req[p].creds /\ grant.refused /\ InWindow =>
              /\ req'[p].tok = grant.token
              /\ req'[p].calls = req[p].calls
              /\ issued' = issued

\* C19: a search or audio-features call that receives a 401, another non-200
\* status, a transport error or a malformed body leaves the token cache entry
\* unchanged, so the next get_access_token call within the validity window
\* returns the same token without a new exchange.
C19_OnlyNaturalExpiry == []RefusedTokenKept /\ [][RefusedTokenServed]_vars

\* a new operation has been handed, from the cache, the token that an
\* earlier request was refused with
C19_Witness ==
    \E p \in Procs :
        /\ req[p].pc = "search" /\ req[p].calls = <<>>
        /\ grant.present /\ grant.refused
        /\ req[p].tok = grant.token

-----------------------------------------------------------------------------
(* C20: no external call is retried within one operation *)

\* the number of times the request what was issued
Issued(r, what) == Cardinality(Places(r, what))

\* worker p issues the request what in this step
Issues(p, what) ==
    /\ Len(req'[p].calls) = Len(req[p].calls) + 1
    /\ req'[p].calls[Len(req'[p].calls)] = what

\* one operation issues each request at most once; only the comprehensive
\* operation asks for the token twice, once per request it makes
AtMostOnce ==
    \A p \in Procs :
        /\ Issued(req[p], "search") <= 1
        /\ Issued(req[p], "features") <= 1
        /\ Issued(req[p], "genius") <= 1
        /\ Issued(req[p], "token") <= (IF req[p].op = "comprehensive" THEN 2 ELSE 1)
        /\ req[p].op \in LyricsOps => Issued(req[p], "features") = 0
        /\ req[p].op \in EnrichOps => Issued(req[p], "genius") = 0

\* a request that failed is not issued again by the same operation
NeverReissued ==
    \A p \in Procs, what \in {"token", "search", "features", "genius"} :
        Issues(p, what) => what \notin req[p].failed

\* C20: a token exchange, search, audio-features or secondary-provider
\* request that fails (timeout, connection error, non-200 status) is never
\* issued again during the same operation; a get_lyrics run issues at most
\* one metadata search and one secondary-provider search, and a
\* _get_comprehensive_spotify_data call at most one search and one
\* audio-features request.
C20_NoRetry == []AtMostOnce /\ [][NeverReissued]_vars

\* a comprehensive operation whose second token exchange failed has ended
\* without asking again
C20_Witness ==
    \E p \in Procs :
        /\ req[p].op = "comprehensive" /\ req[p].pc = "done"
        /\ req[p].calls = <<"token", "search", "token">>
        /\ req[p].failed = {"token"}

-----------------------------------------------------------------------------
(* C21: what the credential loader accepts *)

RequiredKeys == {"client_id", "client_secret"}

\* the line writes the key k, in whatever case
Writes(line, k) == line.kind = "kv" /\ Lower(<<line.key>>) = <<k>>

\* the value of the last line of the file that writes k
LastValue(file, k) ==
    file[CHOOSE i \in 1..Len(file) :
            Writes(file[i], k) /\ \A j \in (i + 1)..Len(file) : ~Writes(file[j], k)].value

\* the loader returned the credentials as written in the file
LoadedAsWritten(file) ==
    IF \A k \in RequiredKeys : \E i \in 1..Len(file) : Writes(file[i], k)
    THEN /\ IsDict(service)
         /\ \A k \in RequiredKeys :
               /\ <<k>> \in DOMAIN service.d
               /\ service.d[<<k>>] = LastValue(file, k)
    ELSE service = PyNone

\* C21: for every resource made of `key: value` and `key = value` lines
\* (also with a value containing ':'), blank lines and comment lines, the
\* loader returns client_id and client_secret with the values written, keys
\* lower-cased and trimmed, values trimmed; it returns None when one of the
\* two is missing.
C21_LoaderAccepts ==
    service # NoService /\ fs[LoaderPath].exists =>
        LoadedAsWritten(fs[LoaderPath].lines)

\* no `key = value` line of the file has ':' in its value
NoColonAfterEquals(file) ==
    \A i \in 1..Len(file) :
        file[i].kind = "kv" /\ file[i].sep = "=" => ~Contains(file[i].value, ":")

\* what holds of the loader: the same, for the files whose `key = value`
\* lines carry no ':'
LoadedWithoutColonValues ==
    service # NoService /\ fs[LoaderPath].exists
                         /\ NoColonAfterEquals(fs[LoaderPath].lines)
        => LoadedAsWritten(fs[LoaderPath].lines)

-----------------------------------------------------------------------------
(* C28: the setup command and the loader *)

\* C28: after setup_spotify completed with client id I and client secret S
\* on a system with no earlier credentials file, the constructed
\* LyricsService holds {client_id: I, client_secret: S}.
C28_SetupThenLoad ==
    fs[SetupPath].exists /\ ~fs[LoaderPath].exists /\ service # NoService =>
        /\ IsDict(service)
        /\ service.d[<<"client_id">>] = LStrip(fs[SetupPath].lines[1].value)
        /\ service.d[<<"client_secret">>] = LStrip(fs[SetupPath].lines[2].value)

-----------------------------------------------------------------------------
(* C22: two workers racing to refresh the token *)

\* worker p handles the answer of its exchange in this step
StoreStep(p) == req[p].pc = "store" /\ req'[p] # req[p]

\* the provider answered with a token
Granted(response) ==
    /\ response.st = "http" /\ response.code = 200 /\ IsDict(response.body)
    /\ Truthy(DictGet(response.body, "access_token", PyNone))

\* a worker that finds no valid token goes to the exchange whatever the
\* other worker is doing, returns the token its own exchange produced, and
\* its write replaces the cache entry as a whole
OwnExchange ==
    \A p \in Procs :
        /\ TokenStep(p) /\ req[p].creds /\ ~Truthy(CacheGet(tokenCache, now)) =>
              req'[p].pc = "exchange"
        /\ StoreStep(p) /\ Granted(req[p].posted) =>
              LET body == req[p].posted.body
              IN  /\ req'[p].tok = body.d["access_token"]
                  /\ req'[p].tok \in {JTok(k) : k \in 1..issued}
                  /\ tokenCache' = CacheSet(body.d["access_token"],
                                            body.d["expires_in"].n - TOKEN_MARGIN, now)

\* the cache entry is the one the last write stored: its token with its
\* own expiry
LastWriteWhole ==
    IF grant.present
    THEN /\ tokenCache.present
         /\ tokenCache.value = grant.token
         /\ tokenCache.set_at = grant.at
         /\ tokenCache.expires_at = grant.at + GrantLifetime
    ELSE tokenCache = NoEntry

\* C22: when two requests concurrently find the token absent or expired,
\* both perform the exchange, each returns the token its own exchange
\* produced (not None, not a token the provider never issued), and the cache
\* afterwards holds, as one whole entry, the token and expiry of the write
\* that landed last.
C22_RefreshRace == []LastWriteWhole /\ [][OwnExchange]_vars

\* both workers exchanged at the same time and each holds its own token;
\* the write of the token issued first landed last
C22_Witness ==
    /\ req[1].pc = "search" /\ req[2].pc = "search"
    /\ req[1].calls = <<"token">> /\ req[2].calls = <<"token">>
    /\ req[1].tok = JTok(2) /\ req[2].tok = JTok(1)
    /\ req[1].posted.body.d["expires_in"] # req[2].posted.body.d["expires_in"]
    /\ tokenCache.value = JTok(1)
    /\ grant.at = now

-----------------------------------------------------------------------------
(* C23: get_lyrics for a song that is not in the catalog *)

\* worker p makes the catalog lookup of get_lyrics in this step
LookupStep(p) ==
    /\ req[p].pc \in {"idle", "lookup"}
    /\ req'[p].op \in LyricsOps /\ req'[p].pc # "lookup"

\* the lookup of a missing song ends the call with the error result and
\* touches no cache entry, whatever the cache holds for the id
MissIsError ==
    \A p \in Procs :
        LookupStep(p) /\ ~songs[req'[p].song].exists =>
            /\ req'[p].pc = "done"
            /\ req'[p].res = ErrorResponse("Song not found")
            /\ req'[p].res.d["success"] = JBool(FALSE)
            /\ req'[p].res.d["has_lyrics"] = JBool(FALSE)
            /\ req'[p].calls = <<>>
            /\ lyricsCache' = lyricsCache

\* no step of a call for a missing song writes the cache
MissNeverCached ==
    \A p \in Procs :
        GetLyricsDone(p) /\ req[p].res = ErrorResponse("Song not found") =>
            ~req[p].live

\* C23: get_lyrics for a song id that is not in the catalog returns the
\* error result (success false, has_lyrics false) and writes no lyrics cache
\* entry; the catalog lookup comes before the cache check, so the error is
\* returned even while an unexpired entry for the id is still in the cache.
C23_MissingSongError == []MissNeverCached /\ [][MissIsError]_vars

\* the error result was returned while the cache still held an unexpired
\* entry written before the song was deleted
C23_Witness ==
    \E p \in Procs :
        /\ req[p].pc = "done" /\ req[p].op = "lyrics"
        /\ req[p].res = ErrorResponse("Song not found")
        /\ Truthy(CacheGet(lyricsCache[req[p].song], now))

-----------------------------------------------------------------------------
(* C24: the stream counter and the Stream records *)

\* C24: after any interleaving of track_stream calls, a song's total stream
\* count equals its initial value plus the number of Stream records created
\* for it (each successful call creates one record and raises the counter by
\* one, no increment is lost); a call with an unknown song or user id returns
\* None and changes nothing.
C24_CounterMatchesRecords ==
    /\ (\A p \in Procs : streaming.call[p].pc \in {"idle", "done"}) =>
          \A s \in KnownSongs :
              streaming.total_streams[s] = streaming.initial + streaming.records[s]
    /\ \A p \in Procs :
          LET c == streaming.call[p]
          IN  c.pc = "done" /\ ~(c.song_id \in KnownSongs /\ c.user_id \in KnownUsers) =>
                c.ret = PyNone

-----------------------------------------------------------------------------
(* C25: the top songs *)

\* the response holds the first min(limit, N) entries of the analytics in
\* non-increasing order of total_streams, and leaves out no song with more
\* streams than one it returns
TopOfTheList ==
    LET r == top.top_songs
        N == Len(top.counts)
    IN  /\ Len(r) <= top.limit
        /\ Len(r) = IF top.limit < N THEN top.limit ELSE N
        /\ \A i \in 1..Len(r) : r[i] = SortDesc(Analytics(top.counts))[i]
        /\ \A i \in 1..(Len(r) - 1) : r[i].total_streams >= r[i + 1].total_streams
        /\ \A s \in 1..N : \A i \in 1..Len(r) :
              top.counts[s] > r[i].total_streams =>
                  \E j \in 1..Len(r) : r[j].song_id = s

\* C25: for every integer limit the endpoint accepts, get_top_songs returns
\* the first min(limit, N) entries of the all-songs analytics ordered by
\* total_streams, non-increasing: never more than limit entries, never
\* omitting a song with strictly more streams than a returned one.
C25_TopSongs == top.done => TopOfTheList

\* what holds: the same for the limits that are not negative
TopOfNonNegativeLimit == top.done /\ top.limit >= 0 => TopOfTheList

(***************************************************************************)
(* C26: manage_song and songs the requester does not own                   *)
(***************************************************************************)

\* the requester's artist profile owned the addressed song when the request
\* arrived
OwnsAddressed ==
    /\ managed.request.user.profile /= 0
    /\ managed.before.songs[managed.request.song_id].exists
    /\ managed.before.songs[managed.request.song_id].artist =
           managed.request.user.profile

NothingChanged ==
    /\ managed.songs = managed.before.songs
    /\ managed.files = managed.before.files

\* C26 as stated: a requester whose role is not artist always gets 403, one
\* addressing a song of another artist or a missing song always gets 404,
\* and in both cases no song record or file is changed.
C26_NotOwnedUntouched ==
    managed.status /= 0 =>
        /\ (managed.request.user.role /= "artist" => managed.status = 403)
        /\ (managed.request.user.role = "artist" /\ ~OwnsAddressed
                => managed.status = 404)
        /\ (managed.request.user.role /= "artist" \/ ~OwnsAddressed
                => NothingChanged)

\* C26 amended: on GET, PUT and DELETE a logged-in requester whose role is
\* not artist gets 403 and an artist not owning the addressed song gets 404;
\* other methods get 405 and an anonymous requester 302 before the role is
\* read; whoever does not own the song as an artist is shown no song and
\* changes no song record or file.
C26_NotOwnedUntouchedWhenServed ==
    managed.status /= 0 =>
        /\ (managed.request.method \notin AllowedMethods => managed.status = 405)
        /\ (managed.request.method \in AllowedMethods /\ ~managed.request.user.auth
                => managed.status = 302)
        /\ (managed.request.method \in AllowedMethods /\ managed.request.user.auth
                => /\ (managed.request.user.role /= "artist"
                          => managed.status = 403)
                   /\ (managed.request.user.role = "artist" /\ ~OwnsAddressed
                          => managed.status = 404))
        /\ (managed.request.user.role /= "artist" \/ ~OwnsAddressed
                => managed.shown = DoesNotExist /\ NothingChanged)

\* an artist has asked to delete a song of another artist and got 404
C26_Witness ==
    /\ managed.status = 404
    /\ managed.request.method = "DELETE"
    /\ managed.request.user.profile = 1
    /\ managed.before.songs[managed.request.song_id].exists
    /\ managed.before.songs[managed.request.song_id].artist = 2

(***************************************************************************)
(* C27: a PUT answered with 400 persists nothing                           *)
(***************************************************************************)

\* C27: every manage_song PUT that answers 400 leaves the stored song
\* record as it was and removes no stored file, although the title was
\* assigned to the song object before the validation failed.
C27_RejectedPutPersistsNothing ==
    managed.status = 400 /\ managed.request.method = "PUT" => NothingChanged

\* a form PUT carrying a new title and an invalid audio file was answered 400
C27_Witness ==
    /\ managed.status = 400
    /\ managed.request.method = "PUT"
    /\ managed.request.body.title
    /\ managed.request.body.audio_file = "invalid"
    /\ managed.before.songs[managed.request.song_id].title = "old"

(***************************************************************************)
(* C29: album_image of the song enrichment output                          *)
(***************************************************************************)

\* C29: in every entry of the song route that carries spotify_data,
\* album_image is the URL of the first image of the external track's album
\* when that album has an image (the track id3) and None when the track
\* has no album (the track id1).
C29_AlbumImage ==
    \A p \in Procs :
        LET r == req[p]
        IN  r.view = "songs" /\ r.pc = "done" /\ r.status = 200 =>
              \A i \in 1..Len(r.data) :
                  LET spotify_data == r.data[i].spotify_data
                  IN  spotify_data # PyNone =>
                        /\ (spotify_data.d["spotify_id"] = JStr("id3")
                              => spotify_data.d["album_image"] = JStr("img1"))
                        /\ (spotify_data.d["spotify_id"] = JStr("id1")
                              => spotify_data.d["album_image"] = PyNone)

\* the part of C29 the code keeps: album_image is None in every entry
AlbumImageAlwaysNone ==
    \A p \in Procs :
        LET r == req[p]
        IN  r.view = "songs" =>
              \A i \in 1..Len(r.data) :
                  r.data[i].spotify_data # PyNone =>
                      r.data[i].spotify_data.d["album_image"] = PyNone

(***************************************************************************)
(* C30: the batch commands count every song once                           *)
(***************************************************************************)

SyncCountsOnce ==
    /\ batch.updated_count + batch.failed_count = Len(batch.kinds)
    /\ \A i \in batch.saved : i \in batch.asUpdated /\ i \notin batch.asFailed

LyricsCountsOnce ==
    /\ batch.updated + batch.failed + batch.already_had_lyrics = Len(batch.kinds)
    /\ \A i \in 1..Len(batch.kinds) :
          batch.kinds[i] = "lyrics" => i \notin batch.called

\* C30: when the sync command finishes, updated_count + failed_count is the
\* number of songs processed and a saved song is counted as updated and not
\* as failed; when batch_update_lyrics returns, updated + failed +
\* already_had_lyrics is the length of song_ids and a song with non-blank
\* lyrics has caused no external call.
C30_EverySongCountedOnce ==
    batch.pc = "done" =>
        /\ (batch.cmd = "sync" => SyncCountsOnce)
        /\ (batch.cmd = "lyrics" => LyricsCountsOnce)

\* the half of C30 the code keeps: the counts of batch_update_lyrics
LyricsBatchCountedOnce ==
    batch.pc = "done" /\ batch.cmd = "lyrics" => LyricsCountsOnce

====
